---- MODULE Spec2Model ----
(***************************************************************************)
(* A model of tinyserver's TCP connection engine (internal/tcp):           *)
(*   - tcpConnection / bufferedConnection  (connection.go)                 *)
(*   - tcpListener                         (listener.go)                   *)
(*   - tcpServer                           (listener.go)                   *)
(* Three specifications share one set of variables:                        *)
(*   SpecConn      one connection used by a reader, a writer and closers   *)
(*   SpecListener  one listener with its accept loop, Accept/Close callers *)
(*   SpecServer    one server, its listener, accept task and workers       *)
(* Each specification keeps the variables of the other parts constant.     *)
(***************************************************************************)
EXTENDS Integers, Sequences, FiniteSets, TLC

VARIABLES
  \* ---- one tcpConnection (connection.go:15-22) ----
  closed,        \* c.closed
  rw,            \* c.mu: [readers: set of tasks, writer: task or "none"]
  sockCloses,    \* number of c.conn.Close() calls made on the socket
  inAvail,       \* lines the peer has sent that the socket has not delivered
  rbuf,          \* lines held in c.reader (bufio.Reader)
  werr,          \* c.writer (bufio.Writer) holds unflushed data and a sticky error
  rdDeadline,    \* the socket's read deadline: "none", "future" or "past"
  pc,            \* per task: where the task is in its current call
  op,            \* per task: the method of its current or last call
  res,           \* per task: the result of its last call
  startedClosed, \* per task: c.closed was true when the call started
  ioBy,          \* per task: the call has issued conn.Read or conn.Write
  \* ---- one tcpListener (listener.go:14-21) and the socket under it ----
  lClosed,       \* l.closed (atomic int32)
  closeChan,     \* l.closeChan has been closed
  acceptChan,    \* l.acceptChan: the buffered acceptResult values
  lsnSockCloses, \* number of l.listener.Close() calls made on the socket
  osQueue,       \* connections the OS has completed and not yet handed out
  dialed,        \* number of connections clients have made so far
  loopPc,        \* where tcpListener.acceptLoop is
  loopConn,      \* the connection acceptLoop is sending (0: none)
  loopErr,       \* the error acceptLoop got from l.listener.Accept()
  loopClosed,    \* connections acceptLoop closed itself (listener.go:136)
  apc,           \* per Accept caller: where its call is
  ares,          \* per Accept caller: the acceptResult of its last call
  aAfterClose,   \* per Accept caller: a Close had returned when the call started
  cpc,           \* per Close caller: where its call is
  cres,          \* per Close caller: the result of its last call
  closeReturned, \* some call of tcpListener.Close has returned
  aBlockedAtClose, \* per Accept caller: it was waiting in its select, with l.acceptChan
                 \* empty, when a Close won the CAS on l.closed
  delivered,     \* the connections Accept calls have returned, in order of return
  \* ---- one tcpServer (listener.go:226-234), its tasks and connections ----
  running,       \* s.running
  handler,       \* s.handler: "nil" or "h"
  stopChan,      \* s.stopChan has been closed
  wg,            \* the counter of s.wg
  muOwner,       \* the caller holding s.mu ("none": free)
  ctlPc,         \* per caller of the server's methods: where its call is
  ctlOp,         \* per caller: the method of its current or last call
  ctlRes,        \* per caller: the result of its last call
  ctlLog,        \* per caller: what its last Stop logged when its wait ended
  waiter,        \* per caller: the goroutine of Stop that waits on s.wg
  loopsStarted,  \* number of tcpServer.acceptLoop tasks launched
  srvLoopPc,     \* per accept task: where it is
  obtained,      \* connections an accept task got from s.listener.Accept()
  wpc,           \* per connection: where its handleConnection task is
  wPanic,        \* per connection: its worker is unwinding a panic
  handlerCalls,  \* per connection: number of times the handler was invoked on it
  hClosed,       \* per connection: the handler itself has called conn.Close()
  connClosed,    \* per connection: its tcpConnection.closed
  connSockCloses,\* per connection: number of conn.Close() calls on its socket
  crashed,       \* an unrecovered panic has ended the process
  \* ---- one call of the HTTP parser (internal/http) ----
  hin,           \* the bytes handed to the parser, split into lines
  hpc,           \* where the call is: "ready" or "done"
  hout,          \* what the call returned
  hlook,         \* a header lookup made on the parsed request, and its results
  hquery,        \* a call of QueryParams on the parsed request, and its result
  hback,         \* what ParseRequest returned for the bytes WriteRequest wrote
  \* ---- one call of httpParser.ParseWithTimeout ----
  ptData,        \* the bytes the reader r will deliver before io.EOF
  ptPos,         \* number of bytes read from r so far
  ptCaller,      \* where the caller is: "ready", "select" or "returned"
  ptChild,       \* where the parse goroutine is: "none", "copy" or "done"
  ptExpired,     \* the timeout has elapsed: ctx.Done() is closed
  resultChan,    \* the buffered channel of parse results (capacity 1)
  ptRet,         \* what ParseWithTimeout returned
  ptPosAtReturn, \* ptPos at the moment ParseWithTimeout returned
  \* ---- one body reader: a ChunkedReader or a ContentLengthReader ----
  rdKind,        \* "chunked", "length", or "none"
  rdSrc,         \* what the reader was made from (payloads and cut, or length)
  rdIn,          \* the bytes of the underlying stream that are not yet consumed
  rdN,           \* cr.n, or clr.remaining
  rdErr,         \* cr.err
  rdOut,         \* the bytes the Read calls have returned so far
  rdLast,        \* the last Read: bytes returned, error, underlying stream read
  rdZero,        \* a chunk-size line with the value zero has been read
  rdFirstErr,    \* the first error a Read returned
  rdAfterErr,    \* a Read has been called after a Read returned an error
  \* ---- a messageConnection and its peer, byte by byte ----
  msDelim,       \* c.delimiter, the same on both ends
  msToSend,      \* the messages the peer passes to WriteMessage, in order
  msSent,        \* number of WriteMessage calls that have written their data
  msWPc,         \* the peer's WriteMessage: "idle" or "delim" (data written)
  msWire,        \* bytes written by the peer and not yet read
  msPeerClosed,  \* the peer has closed its end
  msRPc,         \* ReadMessage: "idle" or "loop"
  msBuf,         \* buffer of the ReadMessage under way
  msGot,         \* the messages the ReadMessage calls have returned, in order
  msLast,        \* what the last ReadMessage returned
  msFailed,      \* a c.Read inside a ReadMessage has failed
  \* ---- one ReadMessage on a long stream, by lengths ----
  mzDelimAt,     \* bytes in the stream before its first delimiter, -1: none
  mzDelimLen,    \* len(c.delimiter)
  mzLen,         \* len(buffer)
  mzShort,       \* number of Read calls that returned a single byte
  mzPc,          \* "loop" or "returned"
  mzRet,         \* what ReadMessage returned: length of the message, error
  \* ---- an HTTP response under construction ----
  rsResp,        \* the httpResponse: statusCode, version, headers, body
  rsValid        \* what ValidateResponse returned for rsResp, <<>>: not called

connVars == <<closed, rw, sockCloses, inAvail, rbuf, werr, rdDeadline,
              pc, op, res, startedClosed, ioBy>>

lsnVars == <<lClosed, closeChan, acceptChan, lsnSockCloses, osQueue, dialed,
             loopPc, loopConn, loopErr, loopClosed, apc, ares, aAfterClose,
             cpc, cres, closeReturned, aBlockedAtClose, delivered>>

srvVars == <<running, handler, stopChan, wg, muOwner, ctlPc, ctlOp, ctlRes,
             ctlLog, waiter, loopsStarted, srvLoopPc, obtained, wpc, wPanic,
             handlerCalls, hClosed, connClosed, connSockCloses, crashed>>

ptVars == <<ptData, ptPos, ptCaller, ptChild, ptExpired, resultChan, ptRet,
            ptPosAtReturn>>

rdVars == <<rdKind, rdSrc, rdIn, rdN, rdErr, rdOut, rdLast, rdZero, rdFirstErr,
            rdAfterErr>>

msgVars == <<msDelim, msToSend, msSent, msWPc, msWire, msPeerClosed, msRPc, msBuf,
             msGot, msLast, msFailed, mzDelimAt, mzDelimLen, mzLen, mzShort, mzPc, mzRet>>

parserVars == <<hin, hpc, hout, hlook, hquery, hback>>

rsVars == <<rsResp, rsValid>>

httpVars == <<parserVars, ptVars, rdVars, msgVars, rsVars>>

vars == <<connVars, lsnVars, srvVars, httpVars>>

(***************************************************************************)
(* Bounds of the model.                                                    *)
(***************************************************************************)
MaxData == 2        \* lines the peer may have in flight
MaxConns == 2       \* connections clients make to the listener
MaxStarts == 2      \* accept tasks the server launches (successful Start calls)
MaxSrvConns == 1    \* connections clients make to the server

\* ------------------------------------------------------------------------
\* sync.RWMutex (Go's writer-preferring read-write lock)
\* ------------------------------------------------------------------------
\* RLock succeeds only when no writer holds or has announced the lock: a
\* goroutine calling Lock while readers hold the lock makes later RLock calls
\* wait until that writer has acquired and released it.
RWFree == [readers |-> {}, writer |-> "none"]
RWCanRLock(l) == l.writer = "none"
RWRLock(l, t) == [l EXCEPT !.readers = @ \cup {t}]
RWRUnlock(l, t) == [l EXCEPT !.readers = @ \ {t}]
\* Lock: take the writers' mutex and announce (first half), then wait for the
\* readers that hold the lock to leave (second half).
RWCanAnnounce(l) == l.writer = "none"
RWAnnounce(l, t) == [l EXCEPT !.writer = t]
RWCanEnter(l, t) == l.writer = t /\ l.readers = {}
RWUnlock(l) == [l EXCEPT !.writer = "none"]

\* ------------------------------------------------------------------------
\* SpecConn: tcpConnection and bufferedConnection
\* ------------------------------------------------------------------------
\* The public contract is one reader and one writer per connection; Close
\* may come from either of them and from a third task (a server worker's
\* deferred Close, a shutdown path).
Tasks == {"reader", "writer", "closer"}

OpsOf(t) ==
  IF t = "reader" THEN {"Read", "ReadLine", "SetReadDeadline", "Close"}
  ELSE IF t = "writer" THEN {"Write", "WriteLine", "Flush", "Close"}
  ELSE {"Close"}

SharedOps == {"Read", "Write", "ReadLine"}      \* methods that take c.mu.RLock
IoOps == {"Read", "Write", "ReadLine", "WriteLine", "Flush"}
LockFreeOps == {"SetReadDeadline"}              \* methods that do not take c.mu

ErrClosed == "connection is closed"

ConnOpen ==
  /\ closed = FALSE
  /\ rw = RWFree
  /\ sockCloses = 0
  /\ inAvail = 0
  /\ rbuf = 0
  /\ werr = FALSE
  /\ rdDeadline = "none"
  /\ pc = [t \in Tasks |-> "idle"]
  /\ op = [t \in Tasks |-> "none"]
  /\ res = [t \in Tasks |-> "none"]
  /\ startedClosed = [t \in Tasks |-> FALSE]
  /\ ioBy = [t \in Tasks |-> FALSE]

\* No call of the HTTP parser is under way.
NoQuery == [asked |-> FALSE, params |-> <<>>]
NoLookup == [asked |-> FALSE, name |-> <<>>, get |-> <<>>, all |-> <<>>, has |-> FALSE]

ParserIdle ==
  /\ hin = <<>>
  /\ hpc = "done"
  /\ hout = <<>>
  /\ hlook = NoLookup
  /\ hquery = NoQuery
  /\ hback = <<>>

\* No call of ParseWithTimeout is under way.
PtIdle ==
  /\ ptData = <<>>
  /\ ptPos = 0
  /\ ptCaller = "returned"
  /\ ptChild = "none"
  /\ ptExpired = FALSE
  /\ resultChan = <<>>
  /\ ptRet = <<>>
  /\ ptPosAtReturn = 0

\* No body reader exists.
RdIdle ==
  /\ rdKind = "none"
  /\ rdSrc = <<>>
  /\ rdIn = <<>>
  /\ rdN = 0
  /\ rdErr = <<>>
  /\ rdOut = <<>>
  /\ rdLast = <<>>
  /\ rdZero = FALSE
  /\ rdFirstErr = <<>>
  /\ rdAfterErr = FALSE

\* No messageConnection exists.
MsIdle ==
  /\ msDelim = <<>>
  /\ msToSend = <<>>
  /\ msSent = 0
  /\ msWPc = "idle"
  /\ msWire = <<>>
  /\ msPeerClosed = FALSE
  /\ msRPc = "idle"
  /\ msBuf = <<>>
  /\ msGot = <<>>
  /\ msLast = <<>>
  /\ msFailed = FALSE

MzIdle ==
  /\ mzDelimAt = 0
  /\ mzDelimLen = 0
  /\ mzLen = 0
  /\ mzShort = 0
  /\ mzPc = "returned"
  /\ mzRet = <<>>

MsgIdle == MsIdle /\ MzIdle

\* No httpResponse exists.
RsIdle ==
  /\ rsResp = <<>>
  /\ rsValid = <<>>

HttpIdle == ParserIdle /\ PtIdle /\ RdIdle /\ MsgIdle /\ RsIdle

\* The connection of SpecConn, unused, in the other specifications.
ConnIdle ==
  /\ closed = FALSE
  /\ rw = RWFree
  /\ sockCloses = 0
  /\ inAvail = 0
  /\ rbuf = 0
  /\ werr = FALSE
  /\ rdDeadline = "none"
  /\ pc = <<>>
  /\ op = <<>>
  /\ res = <<>>
  /\ startedClosed = <<>>
  /\ ioBy = <<>>

\* The listener, untouched, in a specification that has none.
LsnIdle ==
  /\ lClosed = 0
  /\ closeChan = FALSE
  /\ acceptChan = <<>>
  /\ lsnSockCloses = 0
  /\ osQueue = <<>>
  /\ dialed = 0
  /\ loopPc = "none"
  /\ loopConn = 0
  /\ loopErr = "none"
  /\ loopClosed = {}
  /\ apc = <<>>
  /\ ares = <<>>
  /\ aAfterClose = <<>>
  /\ cpc = <<>>
  /\ cres = <<>>
  /\ closeReturned = FALSE
  /\ aBlockedAtClose = <<>>
  /\ delivered = <<>>

\* The server, absent, in a specification that has none.
SrvIdle ==
  /\ running = FALSE
  /\ handler = "nil"
  /\ stopChan = FALSE
  /\ wg = 0
  /\ muOwner = "none"
  /\ ctlPc = <<>>
  /\ ctlOp = <<>>
  /\ ctlRes = <<>>
  /\ ctlLog = <<>>
  /\ waiter = <<>>
  /\ loopsStarted = 0
  /\ srvLoopPc = <<>>
  /\ obtained = {}
  /\ wpc = <<>>
  /\ wPanic = <<>>
  /\ handlerCalls = <<>>
  /\ hClosed = <<>>
  /\ connClosed = <<>>
  /\ connSockCloses = <<>>
  /\ crashed = FALSE

ConnInit == ConnOpen /\ LsnIdle /\ SrvIdle /\ HttpIdle

\* A task calls a method of the connection.
Call(t) ==
  /\ pc[t] = "idle"
  /\ \E o \in OpsOf(t) :
       /\ op' = [op EXCEPT ![t] = o]
       /\ pc' = [pc EXCEPT ![t] = IF o \in SharedOps THEN "rlock"
                                  ELSE IF o \in LockFreeOps THEN "nolock"
                                  ELSE "lock"]
  /\ res' = [res EXCEPT ![t] = "none"]
  /\ startedClosed' = [startedClosed EXCEPT ![t] = closed]
  /\ ioBy' = [ioBy EXCEPT ![t] = FALSE]
  /\ UNCHANGED <<closed, rw, sockCloses, inAvail, rbuf, werr, rdDeadline>>
  /\ UNCHANGED <<lsnVars, srvVars, httpVars>>

\* Variant of ReadEnter that skips the closed check.
ReadEnterNoCheck(t) ==
  /\ pc[t] = "rlock" /\ op[t] = "Read"
  /\ RWCanRLock(rw)
  /\ rw' = RWRLock(rw, t)
  /\ pc' = [pc EXCEPT ![t] = "sockread"]
  /\ ioBy' = [ioBy EXCEPT ![t] = TRUE]
  /\ UNCHANGED <<closed, sockCloses, inAvail, rbuf, werr, rdDeadline,
                 op, res, startedClosed>>
  /\ UNCHANGED <<lsnVars, srvVars, httpVars>>

\* Read, up to the call of c.conn.Read: RLock, the closed check.
ReadEnter(t) ==
  /\ pc[t] = "rlock" /\ op[t] = "Read"
  /\ RWCanRLock(rw)
  /\ IF closed
     THEN /\ res' = [res EXCEPT ![t] = ErrClosed]
          /\ pc' = [pc EXCEPT ![t] = "idle"]
          /\ UNCHANGED <<rw, ioBy>>
     ELSE /\ rw' = RWRLock(rw, t)
          /\ pc' = [pc EXCEPT ![t] = "sockread"]
          /\ ioBy' = [ioBy EXCEPT ![t] = TRUE]
          /\ UNCHANGED res
  /\ UNCHANGED <<closed, sockCloses, inAvail, rbuf, werr, rdDeadline,
                 op, startedClosed>>
  /\ UNCHANGED <<lsnVars, srvVars, httpVars>>

\* c.conn.Read returns: a timeout once the read deadline has passed, else the
\* data that has arrived; with neither it stays blocked. Then RUnlock.
ReadReturn(t) ==
  /\ pc[t] = "sockread" /\ op[t] = "Read"
  /\ \/ /\ rdDeadline = "past"
        /\ res' = [res EXCEPT ![t] = "timeout"]
        /\ UNCHANGED inAvail
     \/ /\ rdDeadline # "past" /\ inAvail > 0
        /\ \E n \in 1..inAvail : inAvail' = inAvail - n
        /\ res' = [res EXCEPT ![t] = "ok"]
  /\ rw' = RWRUnlock(rw, t)
  /\ pc' = [pc EXCEPT ![t] = "idle"]
  /\ UNCHANGED <<closed, sockCloses, rbuf, werr, rdDeadline,
                 op, startedClosed, ioBy>>
  /\ UNCHANGED <<lsnVars, srvVars, httpVars>>

\* Write, up to the call of c.conn.Write.
WriteEnter(t) ==
  /\ pc[t] = "rlock" /\ op[t] = "Write"
  /\ RWCanRLock(rw)
  /\ IF closed
     THEN /\ res' = [res EXCEPT ![t] = ErrClosed]
          /\ pc' = [pc EXCEPT ![t] = "idle"]
          /\ UNCHANGED <<rw, ioBy>>
     ELSE /\ rw' = RWRLock(rw, t)
          /\ pc' = [pc EXCEPT ![t] = "sockwrite"]
          /\ ioBy' = [ioBy EXCEPT ![t] = TRUE]
          /\ UNCHANGED res
  /\ UNCHANGED <<closed, sockCloses, inAvail, rbuf, werr, rdDeadline,
                 op, startedClosed>>
  /\ UNCHANGED <<lsnVars, srvVars, httpVars>>

\* c.conn.Write returns, with the bytes written or with the socket's error (a
\* write deadline that has passed, a reset by the peer). Then RUnlock.
WriteReturn(t) ==
  /\ pc[t] = "sockwrite" /\ op[t] = "Write"
  /\ \E r \in {"ok", "write error"} : res' = [res EXCEPT ![t] = r]
  /\ rw' = RWRUnlock(rw, t)
  /\ pc' = [pc EXCEPT ![t] = "idle"]
  /\ UNCHANGED <<closed, sockCloses, inAvail, rbuf, werr, rdDeadline,
                 op, startedClosed, ioBy>>
  /\ UNCHANGED <<lsnVars, srvVars, httpVars>>

\* The first half of c.mu.Lock() in Close, Flush and WriteLine.
LockAnnounce(t) ==
  /\ pc[t] = "lock"
  /\ RWCanAnnounce(rw)
  /\ rw' = RWAnnounce(rw, t)
  /\ pc' = [pc EXCEPT ![t] = "lockwait"]
  /\ UNCHANGED <<closed, sockCloses, inAvail, rbuf, werr, rdDeadline,
                 op, res, startedClosed, ioBy>>
  /\ UNCHANGED <<lsnVars, srvVars, httpVars>>

\* Variant of CloseBody that skips the closed check.
CloseBodyNoCheck(t) ==
  /\ pc[t] = "lockwait" /\ op[t] = "Close"
  /\ RWCanEnter(rw, t)
  /\ sockCloses < 3
  /\ closed' = TRUE
  /\ sockCloses' = sockCloses + 1
  /\ \E r \in {"ok", "socket error"} : res' = [res EXCEPT ![t] = r]
  /\ rw' = RWUnlock(rw)
  /\ pc' = [pc EXCEPT ![t] = "idle"]
  /\ UNCHANGED <<inAvail, rbuf, werr, rdDeadline, op, startedClosed, ioBy>>
  /\ UNCHANGED <<lsnVars, srvVars, httpVars>>

\* Close under the exclusive lock: the closed check, closed = true, the flush
\* of c.writer (a failure is logged), c.conn.Close() and its result.
CloseBody(t) ==
  /\ pc[t] = "lockwait" /\ op[t] = "Close"
  /\ RWCanEnter(rw, t)
  /\ IF closed
     THEN /\ res' = [res EXCEPT ![t] = "ok"]
          /\ UNCHANGED <<closed, sockCloses>>
     ELSE /\ closed' = TRUE
          /\ sockCloses' = sockCloses + 1
          /\ \E r \in {"ok", "socket error"} : res' = [res EXCEPT ![t] = r]
  /\ rw' = RWUnlock(rw)
  /\ pc' = [pc EXCEPT ![t] = "idle"]
  /\ UNCHANGED <<inAvail, rbuf, werr, rdDeadline, op, startedClosed, ioBy>>
  /\ UNCHANGED <<lsnVars, srvVars, httpVars>>

\* Flush under the exclusive lock: the closed check, then c.writer.Flush(),
\* which returns the writer's sticky error or writes what is buffered (nothing
\* is, when no earlier flush has failed).
FlushBody(t) ==
  /\ pc[t] = "lockwait" /\ op[t] = "Flush"
  /\ RWCanEnter(rw, t)
  /\ res' = [res EXCEPT ![t] =
       IF closed THEN ErrClosed ELSE IF werr THEN "write error" ELSE "ok"]
  /\ rw' = RWUnlock(rw)
  /\ pc' = [pc EXCEPT ![t] = "idle"]
  /\ UNCHANGED <<closed, sockCloses, inAvail, rbuf, werr, rdDeadline,
                 op, startedClosed, ioBy>>
  /\ UNCHANGED <<lsnVars, srvVars, httpVars>>

\* WriteLine under the exclusive lock: the closed check, the write deadline
\* (flushTimeout from now), the data and CRLF into c.writer, c.writer.Flush().
\* The flush writes to the socket and may run into that deadline, which leaves
\* the data in c.writer with its error; the write deadline has no other effect
\* and is not kept as state.
WriteLineBody(t) ==
  /\ pc[t] = "lockwait" /\ op[t] = "WriteLine"
  /\ RWCanEnter(rw, t)
  /\ IF closed
     THEN /\ res' = [res EXCEPT ![t] = ErrClosed]
          /\ UNCHANGED <<werr, ioBy>>
     ELSE IF werr
     THEN /\ res' = [res EXCEPT ![t] = "write error"]
          /\ UNCHANGED <<werr, ioBy>>
     ELSE /\ ioBy' = [ioBy EXCEPT ![t] = TRUE]
          /\ \/ /\ res' = [res EXCEPT ![t] = "ok"]
                /\ UNCHANGED werr
             \/ /\ res' = [res EXCEPT ![t] = "write error"]
                /\ werr' = TRUE
  /\ rw' = RWUnlock(rw)
  /\ pc' = [pc EXCEPT ![t] = "idle"]
  /\ UNCHANGED <<closed, sockCloses, inAvail, rbuf, rdDeadline, op, startedClosed>>
  /\ UNCHANGED <<lsnVars, srvVars, httpVars>>

\* ReadLine, up to c.reader.ReadBytes: RLock, the closed check, the read
\* deadline (lineReadTimeout from now). A line already in c.reader is returned
\* without touching the socket; otherwise c.reader calls c.conn.Read.
ReadLineEnter(t) ==
  /\ pc[t] = "rlock" /\ op[t] = "ReadLine"
  /\ RWCanRLock(rw)
  /\ IF closed
     THEN /\ res' = [res EXCEPT ![t] = ErrClosed]
          /\ pc' = [pc EXCEPT ![t] = "idle"]
          /\ UNCHANGED <<rw, ioBy, rbuf, rdDeadline>>
     ELSE IF rbuf > 0
     THEN /\ rbuf' = rbuf - 1
          /\ rdDeadline' = "future"
          /\ res' = [res EXCEPT ![t] = "ok"]
          /\ pc' = [pc EXCEPT ![t] = "idle"]
          /\ UNCHANGED <<rw, ioBy>>
     ELSE /\ rw' = RWRLock(rw, t)
          /\ rdDeadline' = "future"
          /\ pc' = [pc EXCEPT ![t] = "sockread"]
          /\ ioBy' = [ioBy EXCEPT ![t] = TRUE]
          /\ UNCHANGED <<res, rbuf>>
  /\ UNCHANGED <<closed, sockCloses, inAvail, werr, op, startedClosed>>
  /\ UNCHANGED <<lsnVars, srvVars, httpVars>>

\* c.conn.Read returns inside ReadBytes: a timeout, or everything that has
\* arrived goes into c.reader and the first line is returned. Then RUnlock.
ReadLineReturn(t) ==
  /\ pc[t] = "sockread" /\ op[t] = "ReadLine"
  /\ \/ /\ rdDeadline = "past"
        /\ res' = [res EXCEPT ![t] = "timeout"]
        /\ UNCHANGED <<inAvail, rbuf>>
     \/ /\ rdDeadline # "past" /\ inAvail > 0
        /\ rbuf' = inAvail - 1
        /\ inAvail' = 0
        /\ res' = [res EXCEPT ![t] = "ok"]
  /\ rw' = RWRUnlock(rw, t)
  /\ pc' = [pc EXCEPT ![t] = "idle"]
  /\ UNCHANGED <<closed, sockCloses, werr, rdDeadline,
                 op, startedClosed, ioBy>>
  /\ UNCHANGED <<lsnVars, srvVars, httpVars>>

\* SetReadDeadline (and SetDeadline, for its read half): c.conn.SetReadDeadline
\* with the caller's time, no lock and no closed check; on a socket that has
\* been closed the call fails and changes nothing.
SetReadDeadlineBody(t) ==
  /\ pc[t] = "nolock" /\ op[t] = "SetReadDeadline"
  /\ IF sockCloses > 0
     THEN /\ res' = [res EXCEPT ![t] = "socket error"]
          /\ UNCHANGED rdDeadline
     ELSE /\ \E d \in {"past", "future"} : rdDeadline' = d
          /\ res' = [res EXCEPT ![t] = "ok"]
  /\ pc' = [pc EXCEPT ![t] = "idle"]
  /\ UNCHANGED <<closed, rw, sockCloses, inAvail, rbuf, werr,
                 op, startedClosed, ioBy>>
  /\ UNCHANGED <<lsnVars, srvVars, httpVars>>

\* The peer sends a line.
PeerSend ==
  /\ sockCloses = 0
  /\ inAvail < MaxData
  /\ inAvail' = inAvail + 1
  /\ UNCHANGED <<closed, rw, sockCloses, rbuf, werr, rdDeadline,
                 pc, op, res, startedClosed, ioBy>>
  /\ UNCHANGED <<lsnVars, srvVars, httpVars>>

\* Time passes beyond a deadline that was set.
TickRead ==
  /\ rdDeadline = "future"
  /\ rdDeadline' = "past"
  /\ UNCHANGED <<closed, rw, sockCloses, inAvail, rbuf, werr,
                 pc, op, res, startedClosed, ioBy>>
  /\ UNCHANGED <<lsnVars, srvVars, httpVars>>

ConnNext ==
  \/ \E t \in Tasks : Call(t)
  \/ \E t \in Tasks : ReadEnter(t)
  \/ \E t \in Tasks : ReadReturn(t)
  \/ \E t \in Tasks : WriteEnter(t)
  \/ \E t \in Tasks : WriteReturn(t)
  \/ \E t \in Tasks : LockAnnounce(t)
  \/ \E t \in Tasks : CloseBody(t)
  \/ \E t \in Tasks : FlushBody(t)
  \/ \E t \in Tasks : WriteLineBody(t)
  \/ \E t \in Tasks : ReadLineEnter(t)
  \/ \E t \in Tasks : ReadLineReturn(t)
  \/ \E t \in Tasks : SetReadDeadlineBody(t)
  \/ PeerSend
  \/ TickRead

SpecConn == ConnInit /\ [][ConnNext]_vars

\* ------------------------------------------------------------------------
\* Properties of the connection (checked under SpecConn)
\* ------------------------------------------------------------------------
\* C1: once Close has completed on a connection (c.closed is set), every
\* Read, Write, ReadLine, WriteLine or Flush called after that fails with the
\* Network error "connection is closed" and issues no read or write on the
\* underlying socket.
C1_ClosedOpsFail ==
  \A t \in Tasks :
    (startedClosed[t] /\ op[t] \in IoOps) =>
      /\ ~ioBy[t]
      /\ pc[t] \notin {"sockread", "sockwrite"}
      /\ (pc[t] = "idle" => res[t] = ErrClosed)

\* Both the reader and the writer have had a buffered call refused after Close.
C1_Witness ==
  /\ startedClosed["reader"] /\ op["reader"] = "ReadLine"
  /\ pc["reader"] = "idle" /\ res["reader"] = ErrClosed
  /\ startedClosed["writer"] /\ op["writer"] = "WriteLine"
  /\ pc["writer"] = "idle" /\ res["writer"] = ErrClosed

\* C2: Close is idempotent and the closed state is monotonic: a Close that
\* finds the connection closed (called after, or concurrently with, the first
\* one) returns success and does not touch the socket, the socket is closed
\* exactly once, and closed never goes back to open.
C2_CloseIdempotent ==
  /\ [](/\ sockCloses <= 1
        /\ (closed <=> sockCloses = 1)
        /\ \A t \in Tasks :
             (op[t] = "Close" /\ pc[t] = "idle" /\ startedClosed[t]) => res[t] = "ok")
  /\ [][/\ closed => closed'
        /\ \A t \in Tasks :
             (closed /\ op[t] = "Close" /\ pc[t] = "lockwait" /\ pc'[t] = "idle")
               => (res'[t] = "ok" /\ sockCloses' = sockCloses)]_vars

\* Two tasks have closed the connection, the second one after the first
\* Close had completed; the socket was closed once.
C2_Witness ==
  /\ op["closer"] = "Close" /\ pc["closer"] = "idle" /\ res["closer"] = "ok"
  /\ ~startedClosed["closer"]
  /\ op["writer"] = "Close" /\ pc["writer"] = "idle" /\ res["writer"] = "ok"
  /\ startedClosed["writer"]
  /\ sockCloses = 1

\* C10: a Write issued while another task is blocked in Read on an empty
\* stream completes without waiting for that Read to return, in every
\* interleaving with the other operations on the connection: whenever the
\* reader is blocked in c.conn.Read with nothing to read and a task has called
\* Write, that Write can take its read lock and go on.
C10_WriteNotBlockedByRead ==
  \A t \in Tasks :
    ( /\ pc["reader"] = "sockread" /\ op["reader"] = "Read"
      /\ inAvail = 0 /\ rdDeadline # "past"
      /\ pc[t] = "rlock" /\ op[t] = "Write" )
    => ENABLED WriteEnter(t)

\* C11: on a buffered connection writes proceed concurrently with reads: a
\* WriteLine or Flush issued while another task is blocked in ReadLine (in
\* c.conn.Read with nothing to read, its deadline not reached) can take
\* c.mu and complete without waiting for that ReadLine to return.
C11_BufferedWriteNotBlocked ==
  \A r \in Tasks : \A w \in Tasks :
    ( /\ pc[r] = "sockread" /\ op[r] = "ReadLine"
      /\ inAvail = 0 /\ rdDeadline # "past"
      /\ pc[w] = "lockwait" /\ op[w] \in {"WriteLine", "Flush"} )
    => (ENABLED WriteLineBody(w) \/ ENABLED FlushBody(w))

\* C16: a task suspended in Read or ReadLine on a connection whose socket has
\* no data holds no lock that Close needs: a Close called by another task,
\* once it is the announced writer of c.mu, can run to completion without
\* waiting for that read to return.
C16_CloseNotBlockedByRead ==
  \A r \in Tasks : \A k \in Tasks :
    ( /\ pc[r] = "sockread" /\ op[r] \in {"Read", "ReadLine"}
      /\ inAvail = 0 /\ rdDeadline # "past"
      /\ pc[k] = "lockwait" /\ op[k] = "Close" )
    => ENABLED CloseBody(k)


\* C18: after the read deadline has been set to a time in the past, the next
\* read operation on the connection, Read or ReadLine, fails with a timeout
\* instead of blocking or returning data: an operation that finds the
\* deadline in the past when it takes the lock leaves it there and, when it
\* returns, returns the timeout.
C18_PastDeadlineFailsRead ==
  [][\A t \in Tasks :
       /\ ( /\ pc[t] = "rlock" /\ op[t] \in {"Read", "ReadLine"}
            /\ rdDeadline = "past" /\ ~closed /\ pc'[t] # "rlock" )
          => /\ rdDeadline' = "past"
             /\ pc'[t] = "idle" => res'[t] = "timeout"
       /\ ( /\ pc[t] = "sockread" /\ rdDeadline = "past" /\ pc'[t] = "idle" )
          => res'[t] = "timeout"]_vars

\* ------------------------------------------------------------------------
\* tcpListener: Accept, Close and acceptLoop
\* ------------------------------------------------------------------------
AcceptChanCap == 1

NoResult == [conn |-> 0, err |-> "none", cause |-> "none"]
ConnResult(c) == [conn |-> c, err |-> "nil", cause |-> "none"]
ErrListenerClosed == [conn |-> 0, err |-> "listener is closed", cause |-> "none"]
AcceptFailed(e) == [conn |-> 0, err |-> "accept failed", cause |-> e]

\* The listener as NewListener leaves it, acceptLoop started, for the given
\* callers of Accept and of Close.
LsnInit(acceptors, closers) ==
  /\ lClosed = 0
  /\ closeChan = FALSE
  /\ acceptChan = <<>>
  /\ lsnSockCloses = 0
  /\ osQueue = <<>>
  /\ dialed = 0
  /\ loopPc = "check"
  /\ loopConn = 0
  /\ loopErr = "none"
  /\ loopClosed = {}
  /\ apc = [c \in acceptors |-> "idle"]
  /\ ares = [c \in acceptors |-> NoResult]
  /\ aAfterClose = [c \in acceptors |-> FALSE]
  /\ cpc = [k \in closers |-> "idle"]
  /\ cres = [k \in closers |-> "none"]
  /\ closeReturned = FALSE
  /\ aBlockedAtClose = [c \in acceptors |-> FALSE]
  /\ delivered = <<>>

\* Variant of AcceptCheck that skips the load of l.closed.
AcceptCheckNoFlag(c) ==
  /\ ~crashed
  /\ apc[c] = "check"
  /\ apc' = [apc EXCEPT ![c] = "select"]
  /\ UNCHANGED <<lClosed, closeChan, acceptChan, lsnSockCloses, osQueue, dialed,
                 loopPc, loopConn, loopErr, loopClosed, ares, aAfterClose, aBlockedAtClose, delivered,
                 cpc, cres, closeReturned>>
  /\ UNCHANGED <<connVars, srvVars, httpVars>>

\* Accept, first statement: the load of l.closed.
AcceptCheck(c) ==
  /\ ~crashed
  /\ apc[c] = "check"
  /\ IF lClosed = 1
     THEN /\ ares' = [ares EXCEPT ![c] = ErrListenerClosed]
          /\ apc' = [apc EXCEPT ![c] = "idle"]
     ELSE /\ apc' = [apc EXCEPT ![c] = "select"]
          /\ UNCHANGED ares
  /\ UNCHANGED <<lClosed, closeChan, acceptChan, lsnSockCloses, osQueue, dialed,
                 loopPc, loopConn, loopErr, loopClosed, aAfterClose, aBlockedAtClose, delivered,
                 cpc, cres, closeReturned>>
  /\ UNCHANGED <<connVars, srvVars, httpVars>>

\* Variant of AcceptRecv that leaves the received value in l.acceptChan.
AcceptRecvNoRemove(c) ==
  /\ ~crashed
  /\ apc[c] = "select"
  /\ acceptChan # <<>>
  /\ ares' = [ares EXCEPT ![c] = Head(acceptChan)]
  /\ delivered' = IF Head(acceptChan).conn # 0
                  THEN Append(delivered, Head(acceptChan).conn)
                  ELSE delivered
  /\ apc' = [apc EXCEPT ![c] = "idle"]
  /\ UNCHANGED <<lClosed, closeChan, acceptChan, lsnSockCloses, osQueue, dialed,
                 loopPc, loopConn, loopErr, loopClosed, aAfterClose, aBlockedAtClose,
                 cpc, cres, closeReturned>>
  /\ UNCHANGED <<connVars, srvVars, httpVars>>

\* Accept, the select: the case that receives from l.acceptChan.
AcceptRecv(c) ==
  /\ ~crashed
  /\ apc[c] = "select"
  /\ acceptChan # <<>>
  /\ ares' = [ares EXCEPT ![c] = Head(acceptChan)]
  /\ acceptChan' = Tail(acceptChan)
  /\ delivered' = IF Head(acceptChan).conn # 0
                  THEN Append(delivered, Head(acceptChan).conn)
                  ELSE delivered
  /\ apc' = [apc EXCEPT ![c] = "idle"]
  /\ UNCHANGED <<lClosed, closeChan, lsnSockCloses, osQueue, dialed,
                 loopPc, loopConn, loopErr, loopClosed, aAfterClose, aBlockedAtClose,
                 cpc, cres, closeReturned>>
  /\ UNCHANGED <<connVars, srvVars, httpVars>>

\* Accept, the select: the case that receives from the closed l.closeChan.
AcceptShutdown(c) ==
  /\ ~crashed
  /\ apc[c] = "select"
  /\ closeChan
  /\ ares' = [ares EXCEPT ![c] = ErrListenerClosed]
  /\ apc' = [apc EXCEPT ![c] = "idle"]
  /\ UNCHANGED <<lClosed, closeChan, acceptChan, lsnSockCloses, osQueue, dialed,
                 loopPc, loopConn, loopErr, loopClosed, aAfterClose, aBlockedAtClose, delivered,
                 cpc, cres, closeReturned>>
  /\ UNCHANGED <<connVars, srvVars, httpVars>>

\* Variant of CloseCAS that sets l.closed without testing it.
CloseCASNoTest(k) ==
  /\ ~crashed
  /\ cpc[k] = "cas"
  /\ lClosed' = 1
  /\ cpc' = [cpc EXCEPT ![k] = "signal"]
  /\ aBlockedAtClose' = [c \in DOMAIN apc |->
       aBlockedAtClose[c] \/ (apc[c] = "select" /\ acceptChan = <<>>)]
  /\ UNCHANGED <<cres, closeReturned>>
  /\ UNCHANGED <<closeChan, acceptChan, lsnSockCloses, osQueue, dialed,
                 loopPc, loopConn, loopErr, loopClosed, apc, ares, aAfterClose, delivered>>
  /\ UNCHANGED <<connVars, srvVars, httpVars>>

\* Close, first statement: CompareAndSwap(&l.closed, 0, 1); the loser returns nil.
CloseCAS(k) ==
  /\ ~crashed
  /\ cpc[k] = "cas"
  /\ IF lClosed = 0
     THEN /\ lClosed' = 1
          /\ cpc' = [cpc EXCEPT ![k] = "signal"]
          /\ aBlockedAtClose' = [c \in DOMAIN apc |->
               aBlockedAtClose[c] \/ (apc[c] = "select" /\ acceptChan = <<>>)]
          /\ UNCHANGED <<cres, closeReturned>>
     ELSE /\ cres' = [cres EXCEPT ![k] = "nil"]
          /\ cpc' = [cpc EXCEPT ![k] = "idle"]
          /\ closeReturned' = TRUE
          /\ UNCHANGED <<lClosed, aBlockedAtClose>>
  /\ UNCHANGED <<closeChan, acceptChan, lsnSockCloses, osQueue, dialed,
                 loopPc, loopConn, loopErr, loopClosed, apc, ares, aAfterClose, delivered>>
  /\ UNCHANGED <<connVars, srvVars, httpVars>>

\* Close: close(l.closeChan), which panics on a channel already closed.
CloseSignal(k) ==
  /\ ~crashed
  /\ cpc[k] = "signal"
  /\ IF closeChan
     THEN /\ cres' = [cres EXCEPT ![k] = "panic"]
          /\ cpc' = [cpc EXCEPT ![k] = "idle"]
          /\ UNCHANGED closeChan
     ELSE /\ closeChan' = TRUE
          /\ cpc' = [cpc EXCEPT ![k] = "sock"]
          /\ UNCHANGED cres
  /\ UNCHANGED <<lClosed, acceptChan, lsnSockCloses, osQueue, dialed,
                 loopPc, loopConn, loopErr, loopClosed, apc, ares, aAfterClose, aBlockedAtClose, delivered,
                 closeReturned>>
  /\ UNCHANGED <<connVars, srvVars, httpVars>>

\* Close: return l.listener.Close().
CloseSocket(k) ==
  /\ ~crashed
  /\ cpc[k] = "sock"
  /\ lsnSockCloses' = lsnSockCloses + 1
  /\ cres' = [cres EXCEPT ![k] = "nil"]
  /\ cpc' = [cpc EXCEPT ![k] = "idle"]
  /\ closeReturned' = TRUE
  /\ UNCHANGED <<lClosed, closeChan, acceptChan, osQueue, dialed,
                 loopPc, loopConn, loopErr, loopClosed, apc, ares, aAfterClose, aBlockedAtClose, delivered>>
  /\ UNCHANGED <<connVars, srvVars, httpVars>>

\* acceptLoop, top of the loop: return when l.closed is set, else set the
\* accept deadline (listenerAcceptTimeout from now) and call l.listener.Accept().
LoopCheck ==
  /\ ~crashed
  /\ loopPc = "check"
  /\ loopPc' = IF lClosed = 1 THEN "done" ELSE "accept"
  /\ UNCHANGED <<lClosed, closeChan, acceptChan, lsnSockCloses, osQueue, dialed,
                 loopConn, loopErr, loopClosed, apc, ares, aAfterClose, aBlockedAtClose, delivered,
                 cpc, cres, closeReturned>>
  /\ UNCHANGED <<connVars, srvVars, httpVars>>

\* l.listener.Accept() returns a connection; it is configured and wrapped.
LoopAcceptConn ==
  /\ ~crashed
  /\ loopPc = "accept"
  /\ lsnSockCloses = 0
  /\ osQueue # <<>>
  /\ loopConn' = Head(osQueue)
  /\ osQueue' = Tail(osQueue)
  /\ loopPc' = "sendConn"
  /\ UNCHANGED <<lClosed, closeChan, acceptChan, lsnSockCloses, dialed,
                 loopErr, loopClosed, apc, ares, aAfterClose, aBlockedAtClose, delivered,
                 cpc, cres, closeReturned>>
  /\ UNCHANGED <<connVars, srvVars, httpVars>>

\* l.listener.Accept() returns the timeout of the accept deadline: continue
\* when l.closed is still 0, else go on to the error path.
LoopAcceptTimeout ==
  /\ ~crashed
  /\ loopPc = "accept"
  /\ lsnSockCloses = 0
  /\ osQueue = <<>>
  /\ IF lClosed = 0
     THEN loopPc' = "check" /\ UNCHANGED loopErr
     ELSE loopPc' = "errCheck" /\ loopErr' = "timeout"
  /\ UNCHANGED <<lClosed, closeChan, acceptChan, lsnSockCloses, osQueue, dialed,
                 loopConn, loopClosed, apc, ares, aAfterClose, aBlockedAtClose, delivered,
                 cpc, cres, closeReturned>>
  /\ UNCHANGED <<connVars, srvVars, httpVars>>

\* l.listener.Accept() returns an error that is no timeout: the socket has
\* been closed, or the OS refuses (out of descriptors, an aborted connection).
LoopAcceptError ==
  /\ ~crashed
  /\ loopPc = "accept"
  /\ loopErr' = IF lsnSockCloses > 0 THEN "closed" ELSE "os error"
  /\ loopPc' = "errCheck"
  /\ UNCHANGED <<lClosed, closeChan, acceptChan, lsnSockCloses, osQueue, dialed,
                 loopConn, loopClosed, apc, ares, aAfterClose, aBlockedAtClose, delivered,
                 cpc, cres, closeReturned>>
  /\ UNCHANGED <<connVars, srvVars, httpVars>>

\* acceptLoop, "check if we're closing": the non-blocking select on l.closeChan.
LoopErrCheck ==
  /\ ~crashed
  /\ loopPc = "errCheck"
  /\ loopPc' = IF closeChan THEN "done" ELSE "sendErr"
  /\ UNCHANGED <<lClosed, closeChan, acceptChan, lsnSockCloses, osQueue, dialed,
                 loopConn, loopErr, loopClosed, apc, ares, aAfterClose, aBlockedAtClose, delivered,
                 cpc, cres, closeReturned>>
  /\ UNCHANGED <<connVars, srvVars, httpVars>>

\* acceptLoop, "send the error": the select between the send on l.acceptChan
\* and l.closeChan.
LoopSendErr ==
  /\ ~crashed
  /\ loopPc = "sendErr"
  /\ \/ /\ Len(acceptChan) < AcceptChanCap
        /\ acceptChan' = Append(acceptChan, AcceptFailed(loopErr))
        /\ loopPc' = "check"
     \/ /\ closeChan
        /\ loopPc' = "done"
        /\ UNCHANGED acceptChan
  /\ loopErr' = "none"
  /\ UNCHANGED <<lClosed, closeChan, lsnSockCloses, osQueue, dialed,
                 loopConn, loopClosed, apc, ares, aAfterClose, aBlockedAtClose, delivered,
                 cpc, cres, closeReturned>>
  /\ UNCHANGED <<connVars, srvVars, httpVars>>

\* Variant of LoopSendConn whose send does not watch l.closeChan.
LoopSendConnNoClose ==
  /\ ~crashed
  /\ loopPc = "sendConn"
  /\ Len(acceptChan) < AcceptChanCap
  /\ acceptChan' = Append(acceptChan, ConnResult(loopConn))
  /\ loopPc' = "check"
  /\ loopConn' = 0
  /\ UNCHANGED <<lClosed, closeChan, lsnSockCloses, osQueue, dialed, loopClosed,
                 loopErr, apc, ares, aAfterClose, aBlockedAtClose, delivered,
                 cpc, cres, closeReturned>>
  /\ UNCHANGED <<connVars, srvVars, httpVars>>

\* acceptLoop, "send the connection": the select between the send on
\* l.acceptChan and l.closeChan, which closes the connection and returns.
LoopSendConn ==
  /\ ~crashed
  /\ loopPc = "sendConn"
  /\ \/ /\ Len(acceptChan) < AcceptChanCap
        /\ acceptChan' = Append(acceptChan, ConnResult(loopConn))
        /\ loopPc' = "check"
        /\ UNCHANGED loopClosed
     \/ /\ closeChan
        /\ loopClosed' = loopClosed \cup {loopConn}
        /\ loopPc' = "done"
        /\ UNCHANGED acceptChan
  /\ loopConn' = 0
  /\ UNCHANGED <<lClosed, closeChan, lsnSockCloses, osQueue, dialed,
                 loopErr, apc, ares, aAfterClose, aBlockedAtClose, delivered, cpc, cres, closeReturned>>
  /\ UNCHANGED <<connVars, srvVars, httpVars>>

\* A client connects: the OS completes the handshake and queues the connection.
ClientDial ==
  /\ ~crashed
  /\ lsnSockCloses = 0
  /\ dialed < MaxConns
  /\ dialed' = dialed + 1
  /\ osQueue' = Append(osQueue, dialed + 1)
  /\ UNCHANGED <<lClosed, closeChan, acceptChan, lsnSockCloses,
                 loopPc, loopConn, loopErr, loopClosed, apc, ares, aAfterClose, aBlockedAtClose, delivered,
                 cpc, cres, closeReturned>>
  /\ UNCHANGED <<connVars, srvVars, httpVars>>

\* The steps of the listener, whoever its callers are.
LsnStep ==
  \/ \E c \in DOMAIN apc : AcceptCheck(c)
  \/ \E c \in DOMAIN apc : AcceptRecv(c)
  \/ \E c \in DOMAIN apc : AcceptShutdown(c)
  \/ \E k \in DOMAIN cpc : CloseCAS(k)
  \/ \E k \in DOMAIN cpc : CloseSignal(k)
  \/ \E k \in DOMAIN cpc : CloseSocket(k)
  \/ LoopCheck
  \/ LoopAcceptConn
  \/ LoopAcceptTimeout
  \/ LoopAcceptError
  \/ LoopErrCheck
  \/ LoopSendErr
  \/ LoopSendConn
  \/ ClientDial

\* ------------------------------------------------------------------------
\* SpecListener: a listener used directly by tasks calling Accept and Close
\* ------------------------------------------------------------------------
Acceptors == {"acceptor1", "acceptor2"}
ListenerClosers == {"lcloser1", "lcloser2"}

\* A task calls l.Accept().
UserAccept(c) ==
  /\ apc[c] = "idle"
  /\ apc' = [apc EXCEPT ![c] = "check"]
  /\ ares' = [ares EXCEPT ![c] = NoResult]
  /\ aAfterClose' = [aAfterClose EXCEPT ![c] = closeReturned]
  /\ aBlockedAtClose' = [aBlockedAtClose EXCEPT ![c] = FALSE]
  /\ UNCHANGED <<lClosed, closeChan, acceptChan, lsnSockCloses, osQueue, dialed,
                 loopPc, loopConn, loopErr, loopClosed, cpc, cres, closeReturned, delivered>>
  /\ UNCHANGED <<connVars, srvVars, httpVars>>

\* A task calls l.Close().
UserClose(k) ==
  /\ cpc[k] = "idle"
  /\ cpc' = [cpc EXCEPT ![k] = "cas"]
  /\ cres' = [cres EXCEPT ![k] = "none"]
  /\ UNCHANGED <<lClosed, closeChan, acceptChan, lsnSockCloses, osQueue, dialed,
                 loopPc, loopConn, loopErr, loopClosed, apc, ares, aAfterClose, aBlockedAtClose, delivered,
                 closeReturned>>
  /\ UNCHANGED <<connVars, srvVars, httpVars>>

ListenerInit == LsnInit(Acceptors, ListenerClosers) /\ ConnIdle /\ SrvIdle /\ HttpIdle

ListenerNext ==
  \/ LsnStep
  \/ \E c \in Acceptors : UserAccept(c)
  \/ \E k \in ListenerClosers : UserClose(k)

SpecListener == ListenerInit /\ [][ListenerNext]_vars

\* The tasks of the listener keep running: acceptLoop, every Accept call in
\* progress and every Close call in progress take their next step when it
\* stays possible. Nothing obliges a client to connect or a task to call.
LoopSteps ==
  \/ LoopCheck \/ LoopAcceptConn \/ LoopAcceptTimeout \/ LoopAcceptError
  \/ LoopErrCheck \/ LoopSendErr \/ LoopSendConn
AcceptSteps(c) == AcceptCheck(c) \/ AcceptRecv(c) \/ AcceptShutdown(c)
CloseSteps(k) == CloseCAS(k) \/ CloseSignal(k) \/ CloseSocket(k)

\* For the progress properties: two tasks calling Accept again and again and
\* one task calling Close, which is all a shutdown needs.
FairAcceptors == {"acceptor1", "acceptor2"}
FairClosers == {"lcloser1"}

ListenerFairInit == LsnInit(FairAcceptors, FairClosers) /\ ConnIdle /\ SrvIdle /\ HttpIdle

ListenerFairNext ==
  \/ LsnStep
  \/ \E c \in FairAcceptors : UserAccept(c)
  \/ \E k \in FairClosers : UserClose(k)

SpecListenerFair ==
  /\ ListenerFairInit /\ [][ListenerFairNext]_vars
  /\ WF_vars(LoopSteps)
  /\ \A c \in FairAcceptors : WF_vars(AcceptSteps(c))
  /\ \A k \in FairClosers : WF_vars(CloseSteps(k))

\* ------------------------------------------------------------------------
\* Properties of the listener (checked under SpecListener)
\* ------------------------------------------------------------------------
\* C3: after a call of the listener's Close has returned, every Accept call
\* made from then on fails with the Network error "listener is closed" and
\* returns no connection, also when the accept loop had already put a
\* connection into the hand-off channel.
C3_AcceptAfterCloseFails ==
  \A c \in DOMAIN apc :
    aAfterClose[c] =>
      /\ apc[c] \in {"check", "idle"}
      /\ (apc[c] = "idle" => ares[c] = ErrListenerClosed)

\* An Accept called after Close returned has failed while a connection was
\* sitting in the hand-off channel.
C3_Witness ==
  \E c \in DOMAIN apc :
    /\ aAfterClose[c] /\ apc[c] = "idle" /\ ares[c] = ErrListenerClosed
    /\ acceptChan # <<>> /\ Head(acceptChan).conn # 0

\* ------------------------------------------------------------------------
\* SpecServer: tcpServer with its listener, accept task and workers
\* ------------------------------------------------------------------------
Controllers == {"main", "monitor"}     \* tasks calling the server's methods
SrvLoops == 1..MaxStarts               \* the accept tasks, in launch order
Conns == 1..MaxSrvConns                \* the connections, in dial order
CtlOps == {"SetHandler(h)", "SetHandler(nil)", "Start", "Stop", "IsRunning"}
\* "main" drives the server, "monitor" queries it. Every method body but
\* Stop's is one step under s.mu, so calls of two tasks differ from calls of
\* one task only in who waits for the lock.
CtlOpsOf(k) == IF k = "main" THEN CtlOps \ {"IsRunning"} ELSE {"IsRunning"}

ErrAlreadyRunning == "server is already running"
ErrNoHandler == "no connection handler set"

lsnCore == <<lClosed, closeChan, acceptChan, lsnSockCloses, osQueue, dialed,
             loopPc, loopConn, loopErr, loopClosed, closeReturned, delivered>>

\* The server as NewServer leaves it: a listener with its accept loop
\* running, no handler, not running.
ServerInit ==
  /\ LsnInit(SrvLoops, Controllers)
  /\ ConnIdle
  /\ HttpIdle
  /\ running = FALSE
  /\ handler = "nil"
  /\ stopChan = FALSE
  /\ wg = 0
  /\ muOwner = "none"
  /\ ctlPc = [k \in Controllers |-> "idle"]
  /\ ctlOp = [k \in Controllers |-> "none"]
  /\ ctlRes = [k \in Controllers |-> "none"]
  /\ ctlLog = [k \in Controllers |-> "none"]
  /\ waiter = [k \in Controllers |-> "none"]
  /\ loopsStarted = 0
  /\ srvLoopPc = [l \in SrvLoops |-> "none"]
  /\ obtained = {}
  /\ wpc = [c \in Conns |-> "none"]
  /\ wPanic = [c \in Conns |-> FALSE]
  /\ handlerCalls = [c \in Conns |-> 0]
  /\ hClosed = [c \in Conns |-> FALSE]
  /\ connClosed = [c \in Conns |-> FALSE]
  /\ connSockCloses = [c \in Conns |-> 0]
  /\ crashed = FALSE

\* A task calls a method of the server.
CtlCall(k) ==
  /\ ~crashed
  /\ ctlPc[k] = "idle"
  /\ \E o \in CtlOpsOf(k) : ctlOp' = [ctlOp EXCEPT ![k] = o]
  /\ ctlPc' = [ctlPc EXCEPT ![k] = "call"]
  /\ ctlRes' = [ctlRes EXCEPT ![k] = "none"]
  /\ ctlLog' = [ctlLog EXCEPT ![k] = "none"]
  /\ UNCHANGED <<running, handler, stopChan, wg, muOwner, waiter, loopsStarted,
                 srvLoopPc, obtained, wpc, wPanic, handlerCalls, hClosed,
                 connClosed, connSockCloses, crashed>>
  /\ UNCHANGED <<connVars, lsnVars, httpVars>>

\* IsRunning: s.running read under s.mu.RLock.
IsRunningBody(k) ==
  /\ ~crashed
  /\ ctlPc[k] = "call" /\ ctlOp[k] = "IsRunning"
  /\ muOwner = "none"
  /\ ctlRes' = [ctlRes EXCEPT ![k] = IF running THEN "true" ELSE "false"]
  /\ ctlPc' = [ctlPc EXCEPT ![k] = "idle"]
  /\ UNCHANGED <<running, handler, stopChan, wg, muOwner, ctlOp, ctlLog, waiter,
                 loopsStarted, srvLoopPc, obtained, wpc, wPanic, handlerCalls,
                 hClosed, connClosed, connSockCloses, crashed>>
  /\ UNCHANGED <<connVars, lsnVars, httpVars>>

\* SetHandler: s.handler written under s.mu.Lock.
SetHandlerBody(k) ==
  /\ ~crashed
  /\ ctlPc[k] = "call" /\ ctlOp[k] \in {"SetHandler(h)", "SetHandler(nil)"}
  /\ muOwner = "none"
  /\ handler' = IF ctlOp[k] = "SetHandler(h)" THEN "h" ELSE "nil"
  /\ ctlRes' = [ctlRes EXCEPT ![k] = "done"]
  /\ ctlPc' = [ctlPc EXCEPT ![k] = "idle"]
  /\ UNCHANGED <<running, stopChan, wg, muOwner, ctlOp, ctlLog, waiter,
                 loopsStarted, srvLoopPc, obtained, wpc, wPanic, handlerCalls,
                 hClosed, connClosed, connSockCloses, crashed>>
  /\ UNCHANGED <<connVars, lsnVars, httpVars>>

\* Start under s.mu.Lock: the running check, the handler check, then
\* running = true, s.wg.Add(1) and the launch of acceptLoop.
StartBody(k) ==
  /\ ~crashed
  /\ ctlPc[k] = "call" /\ ctlOp[k] = "Start"
  /\ muOwner = "none"
  /\ IF running
     THEN /\ ctlRes' = [ctlRes EXCEPT ![k] = ErrAlreadyRunning]
          /\ UNCHANGED <<running, wg, loopsStarted, srvLoopPc>>
     ELSE IF handler = "nil"
     THEN /\ ctlRes' = [ctlRes EXCEPT ![k] = ErrNoHandler]
          /\ UNCHANGED <<running, wg, loopsStarted, srvLoopPc>>
     ELSE /\ loopsStarted < MaxStarts
          /\ running' = TRUE
          /\ wg' = wg + 1
          /\ loopsStarted' = loopsStarted + 1
          /\ srvLoopPc' = [srvLoopPc EXCEPT ![loopsStarted + 1] = "top"]
          /\ ctlRes' = [ctlRes EXCEPT ![k] = "nil"]
  /\ ctlPc' = [ctlPc EXCEPT ![k] = "idle"]
  /\ UNCHANGED <<handler, stopChan, muOwner, ctlOp, ctlLog, waiter, obtained,
                 wpc, wPanic, handlerCalls, hClosed, connClosed, connSockCloses,
                 crashed>>
  /\ UNCHANGED <<connVars, lsnVars, httpVars>>

\* Stop, from s.mu.Lock to the call of s.listener.Close(): the running check
\* (not running: return nil), running = false, close(s.stopChan). Closing a
\* channel that is already closed panics; the deferred Unlock runs and the
\* panic ends the process.
StopBegin(k) ==
  /\ ~crashed
  /\ ctlPc[k] = "call" /\ ctlOp[k] = "Stop"
  /\ muOwner = "none"
  /\ IF ~running
     THEN /\ ctlRes' = [ctlRes EXCEPT ![k] = "nil"]
          /\ ctlPc' = [ctlPc EXCEPT ![k] = "idle"]
          /\ UNCHANGED <<running, stopChan, muOwner, cpc, cres, crashed>>
     ELSE IF stopChan
     THEN /\ running' = FALSE
          /\ ctlRes' = [ctlRes EXCEPT ![k] = "panic"]
          /\ ctlPc' = [ctlPc EXCEPT ![k] = "idle"]
          /\ crashed' = TRUE
          /\ UNCHANGED <<stopChan, muOwner, cpc, cres>>
     ELSE /\ running' = FALSE
          /\ stopChan' = TRUE
          /\ muOwner' = k
          /\ ctlPc' = [ctlPc EXCEPT ![k] = "stopClose"]
          /\ cpc' = [cpc EXCEPT ![k] = "cas"]
          /\ cres' = [cres EXCEPT ![k] = "none"]
          /\ UNCHANGED <<ctlRes, crashed>>
  /\ UNCHANGED <<handler, wg, ctlOp, ctlLog, waiter, loopsStarted, srvLoopPc,
                 obtained, wpc, wPanic, handlerCalls, hClosed, connClosed,
                 connSockCloses>>
  /\ UNCHANGED <<connVars, lsnCore, apc, ares, aAfterClose, aBlockedAtClose, httpVars>>

\* Stop, after s.listener.Close() has returned: the goroutine that waits on
\* s.wg is started and Stop enters its select.
StopStartWait(k) ==
  /\ ~crashed
  /\ ctlPc[k] = "stopClose" /\ cpc[k] = "idle"
  /\ waiter' = [waiter EXCEPT ![k] = "waiting"]
  /\ ctlPc' = [ctlPc EXCEPT ![k] = "stopWait"]
  /\ UNCHANGED <<running, handler, stopChan, wg, muOwner, ctlOp, ctlRes, ctlLog,
                 loopsStarted, srvLoopPc, obtained, wpc, wPanic, handlerCalls,
                 hClosed, connClosed, connSockCloses, crashed>>
  /\ UNCHANGED <<connVars, lsnVars, httpVars>>

\* The waiting goroutine: s.wg.Wait() returns once the counter is 0, close(done).
WaiterDone(k) ==
  /\ ~crashed
  /\ waiter[k] = "waiting"
  /\ wg = 0
  /\ waiter' = [waiter EXCEPT ![k] = "done"]
  /\ UNCHANGED <<running, handler, stopChan, wg, muOwner, ctlPc, ctlOp, ctlRes,
                 ctlLog, loopsStarted, srvLoopPc, obtained, wpc, wPanic,
                 handlerCalls, hClosed, connClosed, connSockCloses, crashed>>
  /\ UNCHANGED <<connVars, lsnVars, httpVars>>

\* Stop's select, case <-done: logs success, unlocks, returns nil.
StopDone(k) ==
  /\ ~crashed
  /\ ctlPc[k] = "stopWait"
  /\ waiter[k] = "done"
  /\ ctlLog' = [ctlLog EXCEPT ![k] = "stopped successfully"]
  /\ ctlRes' = [ctlRes EXCEPT ![k] = "nil"]
  /\ ctlPc' = [ctlPc EXCEPT ![k] = "idle"]
  /\ muOwner' = "none"
  /\ UNCHANGED <<running, handler, stopChan, wg, ctlOp, waiter, loopsStarted,
                 srvLoopPc, obtained, wpc, wPanic, handlerCalls, hClosed,
                 connClosed, connSockCloses, crashed>>
  /\ UNCHANGED <<connVars, lsnVars, httpVars>>

\* Stop's select, case <-time.After(serverShutdownTimeout): logs the warning,
\* unlocks, returns nil; the waiting goroutine and the workers stay.
StopTimeout(k) ==
  /\ ~crashed
  /\ ctlPc[k] = "stopWait"
  /\ ctlLog' = [ctlLog EXCEPT ![k] = "shutdown timeout"]
  /\ ctlRes' = [ctlRes EXCEPT ![k] = "nil"]
  /\ ctlPc' = [ctlPc EXCEPT ![k] = "idle"]
  /\ muOwner' = "none"
  /\ UNCHANGED <<running, handler, stopChan, wg, ctlOp, waiter, loopsStarted,
                 srvLoopPc, obtained, wpc, wPanic, handlerCalls, hClosed,
                 connClosed, connSockCloses, crashed>>
  /\ UNCHANGED <<connVars, lsnVars, httpVars>>

\* tcpServer.acceptLoop, top of the loop: return (s.wg.Done) when s.stopChan
\* is closed, else call s.listener.Accept().
SrvLoopTop(l) ==
  /\ ~crashed
  /\ srvLoopPc[l] = "top"
  /\ IF stopChan
     THEN /\ srvLoopPc' = [srvLoopPc EXCEPT ![l] = "done"]
          /\ wg' = wg - 1
          /\ UNCHANGED <<apc, ares, aAfterClose, aBlockedAtClose>>
     ELSE /\ srvLoopPc' = [srvLoopPc EXCEPT ![l] = "accept"]
          /\ apc' = [apc EXCEPT ![l] = "check"]
          /\ ares' = [ares EXCEPT ![l] = NoResult]
          /\ aAfterClose' = [aAfterClose EXCEPT ![l] = closeReturned]
          /\ aBlockedAtClose' = [aBlockedAtClose EXCEPT ![l] = FALSE]
          /\ UNCHANGED wg
  /\ UNCHANGED <<running, handler, stopChan, muOwner, ctlPc, ctlOp, ctlRes, ctlLog,
                 waiter, loopsStarted, obtained, wpc, wPanic, handlerCalls,
                 hClosed, connClosed, connSockCloses, crashed>>
  /\ UNCHANGED <<connVars, lsnCore, cpc, cres, httpVars>>

\* Variant of SrvLoopAcceptRet that starts the worker without s.wg.Add(1).
SrvLoopAcceptRetNoAdd(l) ==
  /\ ~crashed
  /\ srvLoopPc[l] = "accept" /\ apc[l] = "idle"
  /\ IF ares[l].conn = 0
     THEN /\ IF stopChan
             THEN srvLoopPc' = [srvLoopPc EXCEPT ![l] = "done"] /\ wg' = wg - 1
             ELSE srvLoopPc' = [srvLoopPc EXCEPT ![l] = "top"] /\ UNCHANGED wg
          /\ UNCHANGED <<obtained, wpc>>
     ELSE /\ obtained' = obtained \cup {ares[l].conn}
          /\ UNCHANGED wg
          /\ wpc' = [wpc EXCEPT ![ares[l].conn] = "start"]
          /\ srvLoopPc' = [srvLoopPc EXCEPT ![l] = "top"]
  /\ ares' = [ares EXCEPT ![l] = NoResult]
  /\ aAfterClose' = [aAfterClose EXCEPT ![l] = FALSE]
  /\ aBlockedAtClose' = [aBlockedAtClose EXCEPT ![l] = FALSE]
  /\ UNCHANGED <<running, handler, stopChan, muOwner, ctlPc, ctlOp, ctlRes, ctlLog,
                 waiter, loopsStarted, wPanic, handlerCalls, hClosed, connClosed,
                 connSockCloses, crashed>>
  /\ UNCHANGED <<connVars, lsnCore, apc, cpc, cres, httpVars>>

\* tcpServer.acceptLoop, s.listener.Accept() has returned. An error: return
\* when s.stopChan is closed, else log and continue. A connection:
\* s.wg.Add(1) and go s.handleConnection(conn).
SrvLoopAcceptRet(l) ==
  /\ ~crashed
  /\ srvLoopPc[l] = "accept" /\ apc[l] = "idle"
  /\ IF ares[l].conn = 0
     THEN /\ IF stopChan
             THEN srvLoopPc' = [srvLoopPc EXCEPT ![l] = "done"] /\ wg' = wg - 1
             ELSE srvLoopPc' = [srvLoopPc EXCEPT ![l] = "top"] /\ UNCHANGED wg
          /\ UNCHANGED <<obtained, wpc>>
     ELSE /\ obtained' = obtained \cup {ares[l].conn}
          /\ wg' = wg + 1
          /\ wpc' = [wpc EXCEPT ![ares[l].conn] = "start"]
          /\ srvLoopPc' = [srvLoopPc EXCEPT ![l] = "top"]
  /\ ares' = [ares EXCEPT ![l] = NoResult]
  /\ aAfterClose' = [aAfterClose EXCEPT ![l] = FALSE]
  /\ aBlockedAtClose' = [aBlockedAtClose EXCEPT ![l] = FALSE]
  /\ UNCHANGED <<running, handler, stopChan, muOwner, ctlPc, ctlOp, ctlRes, ctlLog,
                 waiter, loopsStarted, wPanic, handlerCalls, hClosed, connClosed,
                 connSockCloses, crashed>>
  /\ UNCHANGED <<connVars, lsnCore, apc, cpc, cres, httpVars>>

\* tcpConnection.Close on a connection of the server, called by the one task
\* that uses the connection: nothing when closed, else closed = true and the
\* socket is closed.
SrvConnClose(c) ==
  /\ connClosed' = [connClosed EXCEPT ![c] = TRUE]
  /\ connSockCloses' = [connSockCloses EXCEPT ![c] = IF connClosed[c] THEN @ ELSE @ + 1]

\* handleConnection, up to the handler: s.handler is read (without s.mu) and
\* called; calling a nil handler panics.
WorkerStart(c) ==
  /\ ~crashed
  /\ wpc[c] = "start"
  /\ IF handler = "nil"
     THEN /\ wpc' = [wpc EXCEPT ![c] = "exit"]
          /\ wPanic' = [wPanic EXCEPT ![c] = TRUE]
          /\ UNCHANGED handlerCalls
     ELSE /\ wpc' = [wpc EXCEPT ![c] = "handler"]
          /\ handlerCalls' = [handlerCalls EXCEPT ![c] = @ + 1]
          /\ UNCHANGED wPanic
  /\ UNCHANGED <<running, handler, stopChan, wg, muOwner, ctlPc, ctlOp, ctlRes,
                 ctlLog, waiter, loopsStarted, srvLoopPc, obtained, hClosed,
                 connClosed, connSockCloses, crashed>>
  /\ UNCHANGED <<connVars, lsnVars, httpVars>>

\* The handler closes the connection itself.
HandlerClose(c) ==
  /\ ~crashed
  /\ wpc[c] = "handler"
  /\ ~hClosed[c]
  /\ hClosed' = [hClosed EXCEPT ![c] = TRUE]
  /\ SrvConnClose(c)
  /\ UNCHANGED <<running, handler, stopChan, wg, muOwner, ctlPc, ctlOp, ctlRes,
                 ctlLog, waiter, loopsStarted, srvLoopPc, obtained, wpc, wPanic,
                 handlerCalls, crashed>>
  /\ UNCHANGED <<connVars, lsnVars, httpVars>>

\* The handler returns, or panics. (A handler may also never return.)
HandlerEnd(c) ==
  /\ ~crashed
  /\ wpc[c] = "handler"
  /\ wpc' = [wpc EXCEPT ![c] = "exit"]
  /\ \E p \in BOOLEAN : wPanic' = [wPanic EXCEPT ![c] = p]
  /\ UNCHANGED <<running, handler, stopChan, wg, muOwner, ctlPc, ctlOp, ctlRes,
                 ctlLog, waiter, loopsStarted, srvLoopPc, obtained, handlerCalls,
                 hClosed, connClosed, connSockCloses, crashed>>
  /\ UNCHANGED <<connVars, lsnVars, httpVars>>

\* Variant of WorkerExit without the deferred conn.Close().
WorkerExitNoClose(c) ==
  /\ ~crashed
  /\ wpc[c] = "exit"
  /\ wg' = wg - 1
  /\ wpc' = [wpc EXCEPT ![c] = "done"]
  /\ crashed' = wPanic[c]
  /\ UNCHANGED <<running, handler, stopChan, muOwner, ctlPc, ctlOp, ctlRes,
                 ctlLog, waiter, loopsStarted, srvLoopPc, obtained, wPanic,
                 handlerCalls, hClosed, connClosed, connSockCloses>>
  /\ UNCHANGED <<connVars, lsnVars, httpVars>>

\* handleConnection's deferred calls, on return and on panic alike:
\* conn.Close(), then s.wg.Done(). An unrecovered panic then ends the process.
WorkerExit(c) ==
  /\ ~crashed
  /\ wpc[c] = "exit"
  /\ SrvConnClose(c)
  /\ wg' = wg - 1
  /\ wpc' = [wpc EXCEPT ![c] = "done"]
  /\ crashed' = wPanic[c]
  /\ UNCHANGED <<running, handler, stopChan, muOwner, ctlPc, ctlOp, ctlRes,
                 ctlLog, waiter, loopsStarted, srvLoopPc, obtained, wPanic,
                 handlerCalls, hClosed>>
  /\ UNCHANGED <<connVars, lsnVars, httpVars>>

ServerNext ==
  \/ \E l \in SrvLoops : AcceptCheck(l)
  \/ \E l \in SrvLoops : AcceptRecv(l)
  \/ \E l \in SrvLoops : AcceptShutdown(l)
  \/ \E k \in Controllers : CloseCAS(k)
  \/ \E k \in Controllers : CloseSignal(k)
  \/ \E k \in Controllers : CloseSocket(k)
  \/ LoopCheck
  \/ LoopAcceptConn
  \/ LoopAcceptTimeout
  \/ LoopAcceptError
  \/ LoopErrCheck
  \/ LoopSendErr
  \/ LoopSendConn
  \/ (dialed < MaxSrvConns /\ ClientDial)
  \/ \E k \in Controllers : CtlCall(k)
  \/ \E k \in Controllers : IsRunningBody(k)
  \/ \E k \in Controllers : SetHandlerBody(k)
  \/ \E k \in Controllers : StartBody(k)
  \/ \E k \in Controllers : StopBegin(k)
  \/ \E k \in Controllers : StopStartWait(k)
  \/ \E k \in Controllers : WaiterDone(k)
  \/ \E k \in Controllers : StopDone(k)
  \/ \E k \in Controllers : StopTimeout(k)
  \/ \E l \in SrvLoops : SrvLoopTop(l)
  \/ \E l \in SrvLoops : SrvLoopAcceptRet(l)
  \/ \E c \in Conns : WorkerStart(c)
  \/ \E c \in Conns : HandlerClose(c)
  \/ \E c \in Conns : HandlerEnd(c)
  \/ \E c \in Conns : WorkerExit(c)

SpecServer == ServerInit /\ [][ServerNext]_vars

\* A Start call of k returns in this step / returns nil in this step.
StartReturns(k) == ctlPc[k] = "call" /\ ctlOp[k] = "Start" /\ ctlPc'[k] = "idle"
StartSucceeds(k) == StartReturns(k) /\ ctlRes'[k] = "nil"
\* A Stop call of k, made while the server is not running, returns in this step.
StopNotRunning(k) ==
  ctlPc[k] = "call" /\ ctlOp[k] = "Stop" /\ ctlPc'[k] = "idle" /\ ~running

\* C4: the server's state only moves Created -> Running -> Stopped. Start
\* succeeds only in Created (never started, never stopped, handler non-nil,
\* not running), once a Stop has raised the shutdown signal the server is
\* never Running again, and a Stop on a server that is not running changes
\* nothing of the server and returns nil.
C4_Lifecycle ==
  /\ [](stopChan => ~running)
  /\ [][\A k \in Controllers :
          /\ StartSucceeds(k) =>
               loopsStarted = 0 /\ ~stopChan /\ ~running /\ handler # "nil"
          /\ StopNotRunning(k) =>
               /\ ctlRes'[k] = "nil"
               /\ UNCHANGED <<running, handler, stopChan, wg, loopsStarted,
                              srvLoopPc, wpc, lClosed, closeChan>>]_vars

\* C5: a failing Start changes nothing. Start with no handler set returns
\* "no connection handler set", Start on a running server returns "server is
\* already running", and in both cases the running flag is unchanged and no
\* accept task is launched.
C5_FailingStart ==
  [][\A k \in Controllers : StartReturns(k) =>
       /\ handler = "nil" => ctlRes'[k] = ErrNoHandler
       /\ running => ctlRes'[k] = ErrAlreadyRunning
       /\ ctlRes'[k] # "nil" =>
            UNCHANGED <<running, handler, stopChan, wg, loopsStarted, srvLoopPc>>]_vars

\* C6: when Stop is called on a running server and its wait ends within the
\* budget, then on return the server is not running, the shutdown signal is
\* raised, the listener is closed, and the accept task and every worker the
\* server started have finished.
C6_StopCompletes ==
  [][\A k \in Controllers :
       (ctlPc[k] = "stopWait" /\ ctlPc'[k] = "idle"
          /\ ctlLog'[k] = "stopped successfully") =>
         /\ ~running' /\ stopChan'
         /\ lClosed' = 1 /\ closeChan' /\ lsnSockCloses' >= 1
         /\ \A l \in SrvLoops : srvLoopPc'[l] \in {"none", "done"}
         /\ \A c \in Conns : wpc'[c] \in {"none", "done"}
         /\ ctlRes'[k] = "nil"]_vars

C6_Witness ==
  \E k \in Controllers :
    /\ ctlPc[k] = "idle" /\ ctlOp[k] = "Stop" /\ ctlLog[k] = "stopped successfully"
    /\ \E c \in Conns : wpc[c] = "done" /\ handlerCalls[c] = 1
    /\ srvLoopPc[1] = "done"

\* C7: Stop always ends and returns nil: every Stop call that has ended
\* returned nil, and a Stop that waits for the workers can always leave
\* through the expiry of the shutdown budget, whatever the workers do.
C7_StopReturnsNil ==
  \A k \in Controllers :
    /\ (ctlOp[k] = "Stop" /\ ctlPc[k] = "idle") => ctlRes[k] = "nil"
    /\ ctlPc[k] = "stopWait" => ENABLED StopTimeout(k)

\* C8: every connection handed to a worker is closed by the time the worker
\* ends, whether the handler returned or panicked, and also when the handler
\* had closed the connection itself (the socket is then closed once).
C8_WorkerClosesConn ==
  \A c \in Conns : wpc[c] = "done" => connClosed[c] /\ connSockCloses[c] = 1

C8_Witness ==
  \E c \in Conns : wpc[c] = "done" /\ hClosed[c] /\ wPanic[c] /\ handlerCalls[c] = 1

\* C9: every connection the server's accept task obtains from the listener
\* is passed to the handler exactly once, in a worker of its own that can
\* always take its step: a worker exists for each obtained connection, no
\* connection is handled twice, and a worker that is past the call of the
\* handler has made the call.
C9_HandledExactlyOnce ==
  \A c \in Conns :
    /\ c \in obtained => wpc[c] # "none"
    /\ handlerCalls[c] <= 1
    /\ wpc[c] = "start" => ENABLED WorkerStart(c)
    /\ wpc[c] \in {"exit", "done"} => handlerCalls[c] = 1

\* C12: an Accept call that is blocked waiting for a connection when the
\* listener's Close is called returns the "listener is closed" error, not a
\* connection and not any other error, in every interleaving with acceptLoop.
C12_BlockedAcceptGetsClosedError ==
  \A c \in DOMAIN apc :
    (aBlockedAtClose[c] /\ apc[c] = "idle") => ares[c] = ErrListenerClosed

\* A Close of the listener has been called.
CloseCalled == lClosed = 1 \/ \E k \in DOMAIN cpc : cpc[k] # "idle"

\* C13: Accept never deadlocks on shutdown: once Close has been called, every
\* Accept call in progress or made later returns, and acceptLoop terminates,
\* also when no client ever connected and when l.acceptChan is full.
C13_AcceptNeverDeadlocks ==
  /\ \A c \in FairAcceptors : (CloseCalled /\ apc[c] # "idle") ~> (apc[c] = "idle")
  /\ CloseCalled ~> (loopPc = "done")

\* acceptLoop has ended with l.acceptChan full, and an Accept that was
\* waiting when Close came has returned.
C13_Witness ==
  /\ lClosed = 1 /\ loopPc = "done"
  /\ Len(acceptChan) = AcceptChanCap
  /\ \E c \in FairAcceptors : aBlockedAtClose[c] /\ apc[c] = "idle"

C15_AcceptOrderPreserved ==
  \A i \in 1..Len(delivered) : delivered[i] = i

\* Two connections have been returned, to two different callers.
C15_Witness ==
  /\ Len(delivered) = 2
  /\ \E c \in Acceptors : \E d \in Acceptors :
       c # d /\ ares[c].conn = 1 /\ ares[d].conn = 2

\* C17: while Stop is suspended waiting for the workers it holds no lock that
\* other tasks need: an IsRunning, SetHandler or Start call made meanwhile
\* can take s.mu and complete without waiting for Stop's wait to end.
C17_StopWaitHoldsNoLock ==
  \A k \in Controllers : \A j \in Controllers :
    (ctlPc[k] = "stopWait" /\ ctlPc[j] = "call"
       /\ ctlOp[j] \in {"IsRunning", "SetHandler(h)", "SetHandler(nil)", "Start"})
    => (ENABLED IsRunningBody(j) \/ ENABLED SetHandlerBody(j) \/ ENABLED StartBody(j))

\* ------------------------------------------------------------------------
\* SpecHttp: one call of ParseRequest, or one first Read of a ChunkedReader
\* ------------------------------------------------------------------------
\* Bytes are one-character strings and a line is a sequence of them. The
\* input of ParseRequest is given as bufio.Scanner hands it on: whether the
\* data holds "\r\n\r\n" at all, the lines before it, and the bytes after it.

MaxHeaders == 2      \* header lines drawn freely for one request
MaxBody == 2         \* bytes after the header terminator
MaxZeros == 16       \* zeros after the leading digit of a chunk-size line
MaxChunks == 2       \* chunks in the body of a chunked request

MaxHeaderLines == 100          \* request.go:661
MaxRequestLineLength == 2048   \* request.go:664
MaxHeaderLineLength == 4096    \* request.go:667
IntDigits == 16                \* hexadecimal digits of a Go int (64 bits)

ErrInvalidRequestLine == "invalid HTTP request line"
ErrInvalidMethod == "invalid HTTP method"
ErrInvalidPath == "invalid request path"
ErrInvalidVersion == "invalid HTTP version"
ErrInvalidHeader == "invalid header format"
ErrRequestTooLarge == "request too large"
ErrHeaderTooLarge == "header too large"
ErrChunkedEncodingInvalid == "invalid chunked encoding"
ErrUnexpectedEOF == "unexpected end of input"

\* common.HTTPError: an error of type ErrorTypeProtocol.
HTTPError(message) == [type |-> "Protocol", msg |-> message]
NoError == [type |-> "nil", msg |-> ""]

Digits == {"0", "1", "2", "3", "4", "5", "6", "7", "8", "9"}
LowerLetters == {"a", "b", "c", "d", "e", "f", "g", "h", "i", "j", "k", "l", "m",
                 "n", "o", "p", "q", "r", "s", "t", "u", "v", "w", "x", "y", "z"}
UpperLetters == {"A", "B", "C", "D", "E", "F", "G", "H", "I", "J", "K", "L", "M",
                 "N", "O", "P", "Q", "R", "S", "T", "U", "V", "W", "X", "Y", "Z"}
WhiteSpace == {" ", "\t", "\r", "\n"}    \* what strings.TrimSpace strips
ControlChars == {"\t", "\r", "\n"}       \* the bytes r < 32 || r == 127 in use

MinOf(S) == CHOOSE x \in S : \A y \in S : x <= y
MaxOf(S) == CHOOSE x \in S : \A y \in S : x >= y
IndexesOf(line, chars) == {i \in 1..Len(line) : line[i] \in chars}
Repeat(c, n) == [i \in 1..n |-> c]

\* strings.Split(s, sep) for a one-byte separator.
RECURSIVE Split(_, _)
Split(s, sep) ==
  LET at == IndexesOf(s, {sep})
  IN  IF at = {} THEN <<s>>
      ELSE <<SubSeq(s, 1, MinOf(at) - 1)>> \o Split(SubSeq(s, MinOf(at) + 1, Len(s)), sep)

\* strings.TrimSpace
TrimSpace(s) ==
  LET keep == {i \in 1..Len(s) : s[i] \notin WhiteSpace}
  IN  IF keep = {} THEN <<>> ELSE SubSeq(s, MinOf(keep), MaxOf(keep))

\* strings.SplitN(line, " ", 3)
SplitN3(line) ==
  LET sp == IndexesOf(line, {" "})
      i1 == MinOf(sp)
      i2 == MinOf(sp \ {i1})
  IN  IF sp = {} THEN <<line>>
      ELSE IF sp \ {i1} = {} THEN <<SubSeq(line, 1, i1 - 1), SubSeq(line, i1 + 1, Len(line))>>
      ELSE <<SubSeq(line, 1, i1 - 1), SubSeq(line, i1 + 1, i2 - 1),
             SubSeq(line, i2 + 1, Len(line))>>

MethodGet == <<"G", "E", "T">>
MethodPost == <<"P", "O", "S", "T">>
MethodPut == <<"P", "U", "T">>
MethodDelete == <<"D", "E", "L", "E", "T", "E">>
MethodHead == <<"H", "E", "A", "D">>
MethodOptions == <<"O", "P", "T", "I", "O", "N", "S">>
MethodPatch == <<"P", "A", "T", "C", "H">>
Version10 == <<"H", "T", "T", "P", "/", "1", ".", "0">>
Version11 == <<"H", "T", "T", "P", "/", "1", ".", "1">>
HeaderContentLength ==
  <<"C", "o", "n", "t", "e", "n", "t", "-", "L", "e", "n", "g", "t", "h">>

isValidMethod(method) ==
  method \in {MethodGet, MethodPost, MethodPut, MethodDelete, MethodHead,
              MethodOptions, MethodPatch}

isValidPath(path) ==
  /\ path # <<>>
  /\ path[1] = "/"
  /\ \A i \in 1..Len(path) : path[i] \notin ControlChars

isValidVersion(version) == version \in {Version10, Version11}

isValidHeaderName(name) ==
  /\ name # <<>>
  /\ \A i \in 1..Len(name) :
       name[i] \in LowerLetters \cup UpperLetters \cup Digits \cup {"-"}

\* Variant of parseRequestLine that does not validate the version.
parseRequestLineNoVersion(line) ==
  LET parts == SplitN3(line)
      fail(m) == [err |-> HTTPError(m), method |-> <<>>, path |-> <<>>, version |-> <<>>]
  IN  IF line = <<>> THEN fail(ErrInvalidRequestLine)
      ELSE IF Len(line) > MaxRequestLineLength THEN fail(ErrRequestTooLarge)
      ELSE IF Len(parts) # 3 THEN fail(ErrInvalidRequestLine)
      ELSE IF ~isValidMethod(parts[1]) THEN fail(ErrInvalidMethod)
      ELSE IF ~isValidPath(parts[2]) THEN fail(ErrInvalidPath)
      ELSE [err |-> NoError, method |-> parts[1], path |-> parts[2],
            version |-> parts[3]]

\* parseRequestLine: the error, and the three parts when there is none.
parseRequestLine(line) ==
  LET parts == SplitN3(line)
      fail(m) == [err |-> HTTPError(m), method |-> <<>>, path |-> <<>>, version |-> <<>>]
  IN  IF line = <<>> THEN fail(ErrInvalidRequestLine)
      ELSE IF Len(line) > MaxRequestLineLength THEN fail(ErrRequestTooLarge)
      ELSE IF Len(parts) # 3 THEN fail(ErrInvalidRequestLine)
      ELSE IF ~isValidMethod(parts[1]) THEN fail(ErrInvalidMethod)
      ELSE IF ~isValidPath(parts[2]) THEN fail(ErrInvalidPath)
      ELSE IF ~isValidVersion(parts[3]) THEN fail(ErrInvalidVersion)
      ELSE [err |-> NoError, method |-> parts[1], path |-> parts[2],
            version |-> parts[3]]

\* parseHeader: split at the first colon, trim both sides, check the name.
parseHeader(line) ==
  LET colons == IndexesOf(line, {":"})
      colonIndex == MinOf(colons)
      name == TrimSpace(SubSeq(line, 1, colonIndex - 1))
      value == TrimSpace(SubSeq(line, colonIndex + 1, Len(line)))
      fail == [err |-> HTTPError(ErrInvalidHeader), name |-> <<>>, value |-> <<>>]
  IN  IF colons = {} THEN fail
      ELSE IF ~isValidHeaderName(name) THEN fail
      ELSE [err |-> NoError, name |-> name, value |-> value]

\* parseHeaders: the lines up to the first empty one, each counted, measured
\* and parsed in turn; the first failure ends the loop. headers[name] is the
\* sequence of the values given under exactly that name, in input order.
parseHeaders(lines) ==
  LET empties == {i \in 1..Len(lines) : lines[i] = <<>>}
      last == IF empties = {} THEN Len(lines) ELSE MinOf(empties) - 1
      errAt(i) == IF i > MaxHeaderLines THEN HTTPError(ErrHeaderTooLarge)
                  ELSE IF Len(lines[i]) > MaxHeaderLineLength
                       THEN HTTPError(ErrHeaderTooLarge)
                  ELSE parseHeader(lines[i]).err
      bad == {i \in 1..last : errAt(i) # NoError}
      names == {parseHeader(lines[i]).name : i \in 1..last}
      valuesOf(n) ==
        LET idx == {i \in 1..last : parseHeader(lines[i]).name = n}
            nth(k) == CHOOSE i \in idx : Cardinality({j \in idx : j <= i}) = k
        IN  [k \in 1..Cardinality(idx) |-> parseHeader(lines[nth(k)]).value]
  IN  IF bad # {} THEN [err |-> errAt(MinOf(bad)), headers |-> <<>>]
      ELSE [err |-> NoError, headers |-> [n \in names |-> valuesOf(n)]]

DigitVal(c) ==
  CASE c = "0" -> 0 [] c = "1" -> 1 [] c = "2" -> 2 [] c = "3" -> 3
    [] c = "4" -> 4 [] c = "5" -> 5 [] c = "6" -> 6 [] c = "7" -> 7
    [] c = "8" -> 8 [] c = "9" -> 9

RECURSIVE DecimalValue(_)
DecimalValue(s) ==
  IF s = <<>> THEN 0
  ELSE 10 * DecimalValue(SubSeq(s, 1, Len(s) - 1)) + DigitVal(s[Len(s)])

\* strconv.ParseInt(s, 10, 64): an optional sign, then one or more decimal
\* digits and nothing else. (The values of the model stay far from 2^63.)
ParseInt(s) ==
  LET signed == s # <<>> /\ s[1] \in {"+", "-"}
      digits == IF signed THEN Tail(s) ELSE s
  IN  IF digits = <<>> \/ \E i \in 1..Len(digits) : digits[i] \notin Digits
      THEN [ok |-> FALSE, val |-> 0]
      ELSE [ok |-> TRUE,
            val |-> IF signed /\ s[1] = "-" THEN 0 - DecimalValue(digits)
                    ELSE DecimalValue(digits)]

\* HTTPRequest.ContentLength: the first value stored under exactly
\* "Content-Length"; 0 when there is none or when it is no integer.
ContentLength(headers) ==
  IF HeaderContentLength \notin DOMAIN headers THEN 0
  ELSE IF Len(headers[HeaderContentLength]) = 0 THEN 0
  ELSE LET length == ParseInt(headers[HeaderContentLength][1])
       IN  IF ~length.ok THEN 0 ELSE length.val

NilRequest == [nil |-> TRUE]
\* NewRequest: queryParams is make(map[string]string), an empty map, not nil.
NewQueryParams == [nil |-> FALSE, params |-> <<>>]
NilBody == [nil |-> TRUE, bytes |-> <<>>]

\* What reading the body stream of a request to its end yields.
BodyBytes(req) == IF req.body.nil THEN <<>> ELSE req.body.bytes

\* ParseRequest on the data in = [term, lines, body]: term says that the data
\* holds "\r\n\r\n", lines are the lines before it and body the bytes after it.
ParseRequest(in) ==
  LET fail(e) == [req |-> NilRequest, err |-> e]
      rl == parseRequestLine(in.lines[1])
      hs == parseHeaders(Tail(in.lines))
      contentLength == ContentLength(hs.headers)
      req(b) == [nil |-> FALSE, method |-> rl.method, path |-> rl.path,
                 version |-> rl.version, headers |-> hs.headers, body |-> b,
                 queryParams |-> NewQueryParams]
  IN  IF ~in.term THEN fail(HTTPError(ErrInvalidRequestLine))
      ELSE IF in.lines = <<>> THEN fail(HTTPError(ErrInvalidRequestLine))
      ELSE IF rl.err # NoError THEN fail(rl.err)
      ELSE IF hs.err # NoError THEN fail(hs.err)
      ELSE IF contentLength > 0
           THEN IF Len(in.body) # contentLength
                THEN fail(HTTPError(ErrUnexpectedEOF))
                ELSE [req |-> req([nil |-> FALSE, bytes |-> in.body]),
                      err |-> NoError]
      ELSE [req |-> req(NilBody), err |-> NoError]

\* A Go int as its IntDigits hexadecimal digits, most significant first, in
\* two's complement: size*16 + d keeps the low 64 bits.
IntZero == Repeat(0, IntDigits)
ShiftAdd(size, d) == Tail(size) \o <<d>>
IsNegative(size) == size[1] >= 8
GreaterThan(a, b) ==
  IF IsNegative(a) # IsNegative(b) THEN IsNegative(b)
  ELSE \E i \in 1..IntDigits : a[i] > b[i] /\ \A j \in 1..(i - 1) : a[j] = b[j]

HexDigits == Digits \cup {"a", "b", "c", "d", "e", "f"} \cup {"A", "B", "C", "D", "E", "F"}
HexVal(c) ==
  CASE c \in Digits -> DigitVal(c)
    [] c \in {"a", "A"} -> 10 [] c \in {"b", "B"} -> 11 [] c \in {"c", "C"} -> 12
    [] c \in {"d", "D"} -> 13 [] c \in {"e", "E"} -> 14 [] c \in {"f", "F"} -> 15

RECURSIVE HexFold(_)
HexFold(s) ==
  IF s = <<>> THEN IntZero
  ELSE ShiftAdd(HexFold(SubSeq(s, 1, Len(s) - 1)), HexVal(s[Len(s)]))

\* MaxChunkSize = 1 << 16
MaxChunkSize == HexFold(<<"1", "0", "0", "0", "0">>)

\* parseChunkSize: drop a chunk extension, then fold the hexadecimal digits
\* into an int; any other byte is an error.
parseChunkSize(line) ==
  LET semis == IndexesOf(line, {";"})
      digits == IF semis = {} THEN line ELSE SubSeq(line, 1, MinOf(semis) - 1)
  IN  IF \E i \in 1..Len(digits) : digits[i] \notin HexDigits
      THEN [err |-> HTTPError(ErrChunkedEncodingInvalid), size |-> IntZero]
      ELSE [err |-> NoError, size |-> HexFold(digits)]

\* ChunkedReader.Read, first call on a new reader whose data starts with the
\* chunk-size line `line`: an error, the end of the body, some data of the
\* chunk, or the panic of p[:cr.n] with cr.n negative.
ChunkedReaderRead(line) ==
  LET cs == parseChunkSize(line)
  IN  IF cs.err # NoError
        THEN [outcome |-> "error", err |-> HTTPError(ErrChunkedEncodingInvalid)]
      ELSE IF cs.size = IntZero
        THEN [outcome |-> "eof", err |-> [type |-> "io.EOF", msg |-> "EOF"]]
      ELSE IF GreaterThan(cs.size, MaxChunkSize)
        THEN [outcome |-> "error", err |-> HTTPError(ErrChunkedEncodingInvalid)]
      ELSE IF IsNegative(cs.size)
        THEN [outcome |-> "panic", err |-> NoError]
      ELSE [outcome |-> "data", err |-> NoError]

\* ---- the inputs ----
Join3(m, p, v) == m \o <<" ">> \o p \o <<" ">> \o v

MethodInputs == {MethodGet, MethodPost, <<"B", "R", "E", "W">>}
PathInputs == {<<"/">>, <<"/", "a">>, <<>>, <<"a">>, <<"/", "\t">>,
               <<"/">> \o Repeat("a", MaxRequestLineLength)}
VersionInputs == {Version11, <<"H", "T", "T", "P", "/", "2", ".", "0">>}
RequestLineInputs ==
  {Join3(m, p, v) : m \in MethodInputs, p \in PathInputs, v \in VersionInputs}
    \cup {<<"I", "N", "V", "A", "L", "I", "D">>}

ContentLengthLine(v) == HeaderContentLength \o <<":", " ">> \o v
HostLine == <<"H", "o", "s", "t", ":", " ", "a">>
HeaderLineInputs ==
  {ContentLengthLine(v) : v \in {<<"0">>, <<"1">>, <<"2">>, <<"-", "1">>, <<"x">>}}
    \cup {<<"c", "o", "n", "t", "e", "n", "t", "-", "l", "e", "n", "g", "t", "h",
            ":", " ", "1">>,
          HostLine,
          <<"H", "o", "s", "t">>,
          <<"B", " ", "N", ":", "a">>,
          <<"X", ":">> \o Repeat("a", MaxHeaderLineLength)}
HeaderLists ==
  UNION {[1..n -> HeaderLineInputs] : n \in 0..MaxHeaders}
Bodies == {Repeat("a", n) : n \in 0..MaxBody}

\* Requests with Transfer-Encoding: chunked, whose body is the chunked form of
\* up to MaxChunks payloads.
TransferEncodingLine ==
  <<"T", "r", "a", "n", "s", "f", "e", "r", "-", "E", "n", "c", "o", "d", "i", "n", "g",
    ":", " ", "c", "h", "u", "n", "k", "e", "d">>
CRLF == <<"\r", "\n">>
HexChar(n) ==
  <<"0", "1", "2", "3", "4", "5", "6", "7", "8", "9", "a", "b", "c", "d", "e", "f">>[n + 1]
PayloadInputs == {<<"a">>, <<"H", "e", "l", "l", "o">>, <<" ", "W", "o", "r", "l", "d">>}
RECURSIVE EncodeChunks(_)
EncodeChunks(ps) ==
  IF ps = <<>> THEN <<"0">> \o CRLF \o CRLF
  ELSE <<HexChar(Len(Head(ps)))>> \o CRLF \o Head(ps) \o CRLF \o EncodeChunks(Tail(ps))
RECURSIVE Concat(_)
Concat(ps) == IF ps = <<>> THEN <<>> ELSE Head(ps) \o Concat(Tail(ps))
ChunkedRequestInputs ==
  {[kind |-> "request", term |-> TRUE,
    lines |-> <<Join3(MethodPost, <<"/">>, Version11)>> \o hl \o <<TransferEncodingLine>>,
    body |-> EncodeChunks(ps), payloads |-> ps] :
     hl \in {<<>>, <<HostLine>>},
     ps \in UNION {[1..n -> PayloadInputs] : n \in 0..MaxChunks}}

\* Requests whose target has a query string.
QueryPathInputs ==
  {<<"/", "u", "?", "i", "=", "1">>,
   <<"/", "u", "?", "i", "=", "1", "&", "i", "=", "2">>,
   <<"/", "u", "?", "i", "=", "1", "&", "k", "=", "2">>,
   <<"/", "u", "?">>}
QueryRequestInputs ==
  {[kind |-> "request", term |-> TRUE,
    lines |-> <<Join3(MethodGet, p, Version11)>> \o hl, body |-> <<>>] :
     p \in QueryPathInputs, hl \in {<<>>, <<HostLine>>}}

\* The malformed sample "GET /invalid request line", with the header
\* terminator after it and, as the demo has it, without.
MalformedLine ==
  <<"G", "E", "T", " ", "/", "i", "n", "v", "a", "l", "i", "d", " ",
    "r", "e", "q", "u", "e", "s", "t", " ", "l", "i", "n", "e">>
MalformedSample(t) ==
  [kind |-> "request", term |-> t, lines |-> <<MalformedLine>>, body |-> <<>>]

RequestInputs ==
  {[kind |-> "request", term |-> t, lines |-> <<rl>> \o hl, body |-> b] :
     t \in BOOLEAN, rl \in RequestLineInputs, hl \in HeaderLists, b \in Bodies}
    \cup {[kind |-> "request", term |-> TRUE, lines |-> <<>>, body |-> <<>>]}
    \cup {[kind |-> "request", term |-> TRUE,
           lines |-> <<Join3(MethodGet, <<"/">>, Version11)>> \o Repeat(HostLine, n),
           body |-> <<>>] : n \in {MaxHeaderLines, MaxHeaderLines + 1}}
    \cup ChunkedRequestInputs
    \cup QueryRequestInputs
    \cup {MalformedSample(t) : t \in BOOLEAN}

ChunkLineInputs ==
  {<<d>> \o Repeat("0", k) \o last \o ext :
     d \in {"0", "1", "8", "f", "F", "g"}, k \in 0..MaxZeros,
     last \in {<<>>, <<"5">>}, ext \in {<<>>, <<";", "x">>}}
    \cup {<<>>}
ChunkInputs == {[kind |-> "chunk", line |-> l] : l \in ChunkLineInputs}

\* Requests a caller builds with NewRequest, AddHeader and SetBody, to be
\* written with WriteRequest: adds are the AddHeader calls in order.
HeaderAddInputs ==
  {<<<<"H", "o", "s", "t">>, <<"a">>>>,
   <<<<"A", "c", "c", "e", "p", "t">>, <<"b">>>>,
   <<HeaderContentLength, <<"1">>>>}
MessageInputs ==
  {[kind |-> "message", method |-> m, path |-> p, version |-> Version11,
    adds |-> a, body |-> b] :
     m \in {MethodGet, MethodPost}, p \in {<<"/">>, <<"/", "a", " ", "b">>},
     a \in UNION {[1..n -> HeaderAddInputs] : n \in 0..MaxHeaders}, b \in Bodies}

\* The request value after NewRequest, the AddHeader calls and SetBody.
BuildRequest(msg) ==
  LET names == {msg.adds[i][1] : i \in 1..Len(msg.adds)}
      valuesOf(n) ==
        LET idx == {i \in 1..Len(msg.adds) : msg.adds[i][1] = n}
            nth(k) == CHOOSE i \in idx : Cardinality({j \in idx : j <= i}) = k
        IN  [k \in 1..Cardinality(idx) |-> msg.adds[nth(k)][2]]
  IN  [nil |-> FALSE, method |-> msg.method, path |-> msg.path,
       version |-> msg.version, headers |-> [n \in names |-> valuesOf(n)],
       body |-> IF msg.body = <<>> THEN NilBody
                ELSE [nil |-> FALSE, bytes |-> msg.body],
       queryParams |-> NewQueryParams]

\* The orders in which a range over a map can visit its keys: all of them.
RangeOrders(keys) ==
  {f \in [1..Cardinality(keys) -> keys] :
     \A i \in DOMAIN f : \A j \in DOMAIN f : f[i] = f[j] => i = j}

RECURSIVE HeaderBytes(_, _)
HeaderBytes(headers, order) ==
  IF order = <<>> THEN <<>>
  ELSE LET name == Head(order)
           line(v) == name \o <<":", " ">> \o v \o CRLF
       IN  Concat([k \in 1..Len(headers[name]) |-> line(headers[name][k])])
             \o HeaderBytes(headers, Tail(order))

\* WriteRequest, when its range over req.Headers() visits the names in
\* `order`: the request line, the header lines, an empty line, the body.
WriteRequest(req, order) ==
  req.method \o <<" ">> \o req.path \o <<" ">> \o req.version \o CRLF
    \o HeaderBytes(req.headers, order) \o CRLF \o BodyBytes(req)

\* The start of ParseRequest on raw bytes: the first "\r\n\r\n", the lines
\* bufio.Scanner cuts from what precedes it, and the bytes after it.
FromBytes(data) ==
  LET ends == {i \in 1..(Len(data) - 3) : SubSeq(data, i, i + 3) = CRLF \o CRLF}
      headerEndIndex == MinOf(ends)
      headerData == SubSeq(data, 1, headerEndIndex - 1)
      raw == Split(headerData, "\n")
      strip(l) == IF l # <<>> /\ l[Len(l)] = "\r" THEN SubSeq(l, 1, Len(l) - 1) ELSE l
  IN  IF ends = {} THEN [kind |-> "request", term |-> FALSE, lines |-> <<>>, body |-> <<>>]
      ELSE [kind |-> "request", term |-> TRUE,
            lines |-> IF headerData = <<>> THEN <<>>
                      ELSE [i \in 1..Len(raw) |-> strip(raw[i])],
            body |-> SubSeq(data, headerEndIndex + 4, Len(data))]

HttpInit ==
  /\ hin \in RequestInputs \cup ChunkInputs \cup MessageInputs
  /\ hpc = "ready"
  /\ hout = <<>>
  /\ hlook = NoLookup
  /\ hquery = NoQuery
  /\ hback = <<>>
  /\ PtIdle /\ RdIdle /\ MsgIdle /\ RsIdle
  /\ ConnIdle /\ LsnIdle /\ SrvIdle

\* A caller hands its data to ParseRequest and gets the result.
CallParseRequest ==
  /\ hpc = "ready" /\ hin.kind = "request"
  /\ hout' = ParseRequest(hin)
  /\ hpc' = "done"
  /\ UNCHANGED <<hin, hlook, hquery, hback>>
  /\ UNCHANGED <<connVars, lsnVars, srvVars, ptVars, rdVars, msgVars, rsVars>>

\* A caller reads for the first time from a ChunkedReader over its data.
CallChunkedRead ==
  /\ hpc = "ready" /\ hin.kind = "chunk"
  /\ hout' = ChunkedReaderRead(hin.line)
  /\ hpc' = "done"
  /\ UNCHANGED <<hin, hlook, hquery, hback>>
  /\ UNCHANGED <<connVars, lsnVars, srvVars, ptVars, rdVars, msgVars, rsVars>>

\* HTTPRequest.GetHeader, GetHeaders and HasHeader: the map is indexed with
\* the name as given.
GetHeader(req, name) ==
  IF name \notin DOMAIN req.headers THEN <<>>
  ELSE IF Len(req.headers[name]) = 0 THEN <<>>
  ELSE req.headers[name][1]
GetHeaders(req, name) ==
  IF name \notin DOMAIN req.headers THEN <<>> ELSE req.headers[name]
HasHeader(req, name) == name \in DOMAIN req.headers

ContentLengthLower ==
  <<"c", "o", "n", "t", "e", "n", "t", "-", "l", "e", "n", "g", "t", "h">>
LookupNames == {HeaderContentLength, ContentLengthLower,
                <<"H", "o", "s", "t">>, <<"h", "o", "s", "t">>}

\* The caller looks a header up in the request ParseRequest returned.
CallGetHeader(name) ==
  /\ hpc = "done" /\ hin.kind = "request" /\ hout.err = NoError
  /\ ~hlook.asked
  /\ hlook' = [asked |-> TRUE, name |-> name,
               get |-> GetHeader(hout.req, name),
               all |-> GetHeaders(hout.req, name),
               has |-> HasHeader(hout.req, name)]
  /\ UNCHANGED <<hin, hpc, hout, hquery, hback>>
  /\ UNCHANGED <<connVars, lsnVars, srvVars, ptVars, rdVars, msgVars, rsVars>>

\* url.ParseQuery followed by the copy loop of parseQueryParams: the pairs
\* key=value between the "&", and for each key the first of its values. (The
\* targets in use have nothing to unescape.)
FirstValues(queryString) ==
  LET pieces == SelectSeq(Split(queryString, "&"), LAMBDA x : x # <<>>)
      keyOf(x) == Head(Split(x, "="))
      valOf(x) == IF IndexesOf(x, {"="}) = {} THEN <<>>
                  ELSE SubSeq(x, MinOf(IndexesOf(x, {"="})) + 1, Len(x))
      keys == {keyOf(pieces[i]) : i \in 1..Len(pieces)}
      first(k) == MinOf({i \in 1..Len(pieces) : keyOf(pieces[i]) = k})
  IN  [k \in keys |-> valOf(pieces[first(k)])]

\* HTTPRequest.parseQueryParams: the map it leaves in r.queryParams.
parseQueryParams(path) ==
  LET marks == IndexesOf(path, {"?"})
      queryString == SubSeq(path, MinOf(marks) + 1, Len(path))
  IN  IF path = <<>> \/ marks = {} THEN <<>>
      ELSE IF queryString = <<>> THEN <<>>
      ELSE FirstValues(queryString)

\* HTTPRequest.QueryParams: parse the path only when r.queryParams is nil.
QueryParams(req) ==
  IF req.queryParams.nil THEN parseQueryParams(req.path)
  ELSE req.queryParams.params

\* The caller asks the request ParseRequest returned for its query parameters.
CallQueryParams ==
  /\ hpc = "done" /\ hin.kind = "request" /\ hout.err = NoError
  /\ ~hquery.asked
  /\ hquery' = [asked |-> TRUE, params |-> QueryParams(hout.req)]
  /\ UNCHANGED <<hin, hpc, hout, hlook, hback>>
  /\ UNCHANGED <<connVars, lsnVars, srvVars, ptVars, rdVars, msgVars, rsVars>>

\* A caller writes the request it has built.
CallWriteRequest ==
  /\ hpc = "ready" /\ hin.kind = "message"
  /\ \E order \in RangeOrders(DOMAIN BuildRequest(hin).headers) :
       hout' = [bytes |-> WriteRequest(BuildRequest(hin), order), err |-> NoError]
  /\ hpc' = "written"
  /\ UNCHANGED <<hin, hlook, hquery, hback>>
  /\ UNCHANGED <<connVars, lsnVars, srvVars, ptVars, rdVars, msgVars, rsVars>>

\* The bytes written are handed to ParseRequest.
CallParseBack ==
  /\ hpc = "written"
  /\ hback' = ParseRequest(FromBytes(hout.bytes))
  /\ hpc' = "done"
  /\ UNCHANGED <<hin, hout, hlook, hquery>>
  /\ UNCHANGED <<connVars, lsnVars, srvVars, ptVars, rdVars, msgVars, rsVars>>

HttpNext ==
  \/ CallParseRequest
  \/ CallChunkedRead
  \/ \E name \in LookupNames : CallGetHeader(name)
  \/ CallQueryParams
  \/ CallWriteRequest
  \/ CallParseBack

SpecHttp == HttpInit /\ [][HttpNext]_vars

\* ---- httpParser.ParseWithTimeout: the parse raced against a timer ----
ErrParseTimeout == "parsing timeout"

\* common.TimeoutError: an error of type ErrorTypeTimeout.
TimeoutError(message) == [type |-> "Timeout", msg |-> message]

\* What the ctx.Done() case of the select returns.  The second definition
\* drops the error.
TimeoutResultNoError == [req |-> NilRequest, err |-> NoError]
TimeoutResult == [req |-> NilRequest, err |-> TimeoutError(ErrParseTimeout)]

\* What the readers deliver: serialized requests without headers, and the
\* demo's malformed sample.
ReaderInputs ==
  {WriteRequest(BuildRequest(msg), <<>>) : msg \in {x \in MessageInputs : x.adds = <<>>}}
    \cup {MalformedLine}

PtInit ==
  /\ ptData \in ReaderInputs
  /\ ptPos = 0
  /\ ptCaller = "ready"
  /\ ptChild = "none"
  /\ ptExpired = FALSE
  /\ resultChan = <<>>
  /\ ptRet = <<>>
  /\ ptPosAtReturn = 0
  /\ ParserIdle /\ RdIdle /\ MsgIdle /\ RsIdle
  /\ ConnIdle /\ LsnIdle /\ SrvIdle

PtUnchanged ==
  UNCHANGED <<connVars, lsnVars, srvVars, parserVars, rdVars, msgVars, rsVars>>

\* ParseWithTimeout up to its select: the context with its timer, the result
\* channel, and the goroutine that runs p.Parse(r).
PtCall ==
  /\ ptCaller = "ready"
  /\ ptCaller' = "select"
  /\ ptChild' = "copy"
  /\ UNCHANGED <<ptData, ptPos, ptExpired, resultChan, ptRet, ptPosAtReturn>>
  /\ PtUnchanged

\* The timeout elapses and the context closes its Done channel.
PtTimerExpires ==
  /\ ptCaller = "select"
  /\ ~ptExpired
  /\ ptExpired' = TRUE
  /\ UNCHANGED <<ptData, ptPos, ptCaller, ptChild, resultChan, ptRet, ptPosAtReturn>>
  /\ PtUnchanged

\* One r.Read made by io.Copy in the goroutine: the reader hands over some of
\* the bytes it still has.
PtChildRead ==
  /\ ptChild = "copy"
  /\ ptPos < Len(ptData)
  /\ \E n \in 1..(Len(ptData) - ptPos) : ptPos' = ptPos + n
  /\ UNCHANGED <<ptData, ptCaller, ptChild, ptExpired, resultChan, ptRet, ptPosAtReturn>>
  /\ PtUnchanged

\* r.Read returns io.EOF: io.Copy ends, the rest of ParseRequest runs on the
\* buffer and the goroutine sends the result, which never blocks.
PtChildFinish ==
  /\ ptChild = "copy"
  /\ ptPos = Len(ptData)
  /\ resultChan' = Append(resultChan, ParseRequest(FromBytes(ptData)))
  /\ ptChild' = "done"
  /\ UNCHANGED <<ptData, ptPos, ptCaller, ptExpired, ptRet, ptPosAtReturn>>
  /\ PtUnchanged

\* The select takes its resultChan case.
PtSelectResult ==
  /\ ptCaller = "select"
  /\ resultChan # <<>>
  /\ ptRet' = Head(resultChan)
  /\ resultChan' = Tail(resultChan)
  /\ ptCaller' = "returned"
  /\ ptPosAtReturn' = ptPos
  /\ UNCHANGED <<ptData, ptPos, ptChild, ptExpired>>
  /\ PtUnchanged

\* The select takes its ctx.Done() case.
PtSelectTimeout ==
  /\ ptCaller = "select"
  /\ ptExpired
  /\ ptRet' = TimeoutResult
  /\ ptCaller' = "returned"
  /\ ptPosAtReturn' = ptPos
  /\ UNCHANGED <<ptData, ptPos, ptChild, ptExpired, resultChan>>
  /\ PtUnchanged

PtNext ==
  \/ PtCall
  \/ PtTimerExpires
  \/ PtChildRead
  \/ PtChildFinish
  \/ PtSelectResult
  \/ PtSelectTimeout

SpecParseTimeout == PtInit /\ [][PtNext]_vars

\* ---- the body readers: ChunkedReader and ContentLengthReader ----
MaxReadBuf == 3

IoEOF == [type |-> "io.EOF", msg |-> "EOF"]
\* The run-time panic of a slice expression with a negative bound.
SlicePanic == [type |-> "panic", msg |-> "slice bounds out of range"]

\* The value of a non-negative int.
RECURSIVE IntValue(_)
IntValue(size) ==
  IF size = <<>> THEN 0
  ELSE 16 * IntValue(SubSeq(size, 1, Len(size) - 1)) + size[Len(size)]

\* r.Read(p) with len(p) = plen on a stream whose remaining bytes are `in`:
\* the possible counts and errors. A reader may return fewer bytes than asked.
ReaderRead(in, plen) ==
  IF plen = 0
    THEN IF in = <<>> THEN {[n |-> 0, err |-> NoError], [n |-> 0, err |-> IoEOF]}
         ELSE {[n |-> 0, err |-> NoError]}
  ELSE IF in = <<>> THEN {[n |-> 0, err |-> IoEOF]}
  ELSE {[n |-> k, err |-> NoError] : k \in 1..MinOf({plen, Len(in)})}

\* cr.r.ReadLine(): the bytes up to the next "\n" without the line end, or
\* what is left when the stream ends first, or io.EOF when nothing is left.
ReadLine(in) ==
  LET nls == IndexesOf(in, {"\n"})
      i == MinOf(nls)
      raw == SubSeq(in, 1, i - 1)
  IN  IF in = <<>> THEN [line |-> <<>>, err |-> IoEOF, rest |-> <<>>]
      ELSE IF nls = {} THEN [line |-> in, err |-> NoError, rest |-> <<>>]
      ELSE [line |-> IF raw # <<>> /\ raw[Len(raw)] = "\r"
                     THEN SubSeq(raw, 1, Len(raw) - 1) ELSE raw,
            err |-> NoError,
            rest |-> SubSeq(in, i + 1, Len(in))]

\* readTrailers: lines are read up to an empty one or an error.
RECURSIVE readTrailers(_)
readTrailers(in) ==
  LET l == ReadLine(in)
  IN  IF l.err # NoError \/ l.line = <<>> THEN l.rest ELSE readTrailers(l.rest)

\* ChunkedReader.Read with cr.n = 0, up to "cr.n = int64(chunkSize)": the
\* chunk-size line is read and parsed. stop: Read returns (0, err) here.
ReadChunkSize(in) ==
  LET l == ReadLine(in)
      o == ChunkedReaderRead(l.line)
      stop(e, rest, z) == [stop |-> TRUE, err |-> e, n |-> 0, rest |-> rest, zero |-> z]
  IN  IF l.err # NoError THEN stop(l.err, l.rest, FALSE)
      ELSE IF o.outcome = "error" THEN stop(o.err, l.rest, FALSE)
      ELSE IF o.outcome = "eof"
        THEN stop(IoEOF, readTrailers(l.rest), l.line # <<>> /\ l.line[1] \in HexDigits)
      ELSE IF o.outcome = "panic" THEN stop(SlicePanic, l.rest, FALSE)
      ELSE [stop |-> FALSE, err |-> NoError, n |-> IntValue(parseChunkSize(l.line).size),
            rest |-> l.rest, zero |-> FALSE]

\* The readers are made from chunked bodies, whole or cut short, and from
\* streams with a content length.
ReaderPayloads == {<<"a">>, <<"a", "\n", "b">>}
ChunkedStreams ==
  UNION {{[payloads |-> ps, cut |-> c] : c \in 0..Len(EncodeChunks(ps))} :
           ps \in UNION {[1..n -> ReaderPayloads] : n \in 0..MaxChunks}}
LengthStreams ==
  {[length |-> cl, data |-> SubSeq(<<"a", "b", "c", "d", "e", "f", "g", "h">>, 1, k)] :
     cl \in 0..MaxBody, k \in 0..(MaxBody + 1)}

RdInit ==
  /\ \/ /\ rdKind = "chunked"
        /\ rdSrc \in ChunkedStreams
        /\ rdIn = SubSeq(EncodeChunks(rdSrc.payloads), 1, rdSrc.cut)
        /\ rdN = 0
     \/ /\ rdKind = "length"
        /\ rdSrc \in LengthStreams
        /\ rdIn = rdSrc.data
        /\ rdN = rdSrc.length
  /\ rdErr = NoError
  /\ rdOut = <<>>
  /\ rdLast = [n |-> 0, err |-> NoError, under |-> FALSE]
  /\ rdZero = FALSE
  /\ rdFirstErr = NoError
  /\ rdAfterErr = FALSE
  /\ ParserIdle /\ PtIdle /\ MsgIdle /\ RsIdle
  /\ ConnIdle /\ LsnIdle /\ SrvIdle

RdUnchanged ==
  UNCHANGED <<connVars, lsnVars, srvVars, parserVars, ptVars, msgVars, rsVars>>

\* What a Read that returns r leaves in the history variables.
RdReturn(r) ==
  /\ rdLast' = r
  /\ rdFirstErr' = IF rdFirstErr = NoError THEN r.err ELSE rdFirstErr
  /\ rdAfterErr' = (rdAfterErr \/ rdFirstErr # NoError)

\* ChunkedReader.Read(p) with len(p) = plen. readCRLF: the line end after a
\* chunk's data is read when the chunk is exhausted.
ChunkedReadWith(plen, readCRLF) ==
  /\ rdKind = "chunked"
  /\ IF rdErr # NoError
     THEN /\ RdReturn([n |-> 0, err |-> rdErr, under |-> FALSE])
          /\ UNCHANGED <<rdIn, rdN, rdErr, rdOut, rdZero>>
     ELSE LET h == IF rdN = 0 THEN ReadChunkSize(rdIn)
                   ELSE [stop |-> FALSE, err |-> NoError, n |-> rdN, rest |-> rdIn,
                         zero |-> FALSE]
          IN  IF h.stop
              THEN /\ rdErr' = h.err
                   /\ rdIn' = h.rest
                   /\ rdZero' = (rdZero \/ h.zero)
                   /\ RdReturn([n |-> 0, err |-> h.err, under |-> TRUE])
                   /\ UNCHANGED <<rdN, rdOut>>
              ELSE \E r \in ReaderRead(h.rest, MinOf({plen, h.n})) :
                     LET after == SubSeq(h.rest, r.n + 1, Len(h.rest))
                     IN  /\ rdN' = h.n - r.n
                         /\ rdOut' = rdOut \o SubSeq(h.rest, 1, r.n)
                         /\ rdIn' = IF h.n - r.n = 0 /\ r.err = NoError /\ readCRLF
                                    THEN ReadLine(after).rest ELSE after
                         /\ rdErr' = r.err
                         /\ RdReturn([n |-> r.n, err |-> r.err, under |-> TRUE])
                         /\ UNCHANGED rdZero
  /\ UNCHANGED <<rdKind, rdSrc>>
  /\ RdUnchanged

\* Variant of ChunkedReader.Read that leaves the line end after a chunk's
\* data in the stream.
ChunkedReadKeepCRLF(plen) == ChunkedReadWith(plen, FALSE)
ChunkedRead(plen) == ChunkedReadWith(plen, TRUE)

\* ContentLengthReader.Read(p) with len(p) = plen. clip: p is cut to the
\* remaining length.
LengthReadWith(plen, clip) ==
  /\ rdKind = "length"
  /\ IF rdN <= 0
     THEN /\ RdReturn([n |-> 0, err |-> IoEOF, under |-> FALSE])
          /\ UNCHANGED <<rdIn, rdN, rdOut>>
     ELSE \E r \in ReaderRead(rdIn, IF clip THEN MinOf({plen, rdN}) ELSE plen) :
            /\ rdN' = rdN - r.n
            /\ rdOut' = rdOut \o SubSeq(rdIn, 1, r.n)
            /\ rdIn' = SubSeq(rdIn, r.n + 1, Len(rdIn))
            /\ RdReturn([n |-> r.n, err |-> r.err, under |-> TRUE])
  /\ UNCHANGED <<rdKind, rdSrc, rdErr, rdZero>>
  /\ RdUnchanged

\* Variant of ContentLengthReader.Read that does not cut p.
LengthReadNoClip(plen) == LengthReadWith(plen, FALSE)
LengthRead(plen) == LengthReadWith(plen, TRUE)

\* ContentLengthReader.Remaining()
Remaining == rdN

RdNext ==
  \/ \E plen \in 0..MaxReadBuf : ChunkedRead(plen)
  \/ \E plen \in 0..MaxReadBuf : LengthRead(plen)

SpecBodyReaders == RdInit /\ [][RdNext]_vars

\* ---- messageConnection: messages framed by a delimiter ----
MaxMsgs == 2
MaxShortReads == 1
MaxMessageSize == 1048576
messageReadChunkSize == 1024

DefaultMessageDelimiter == <<"\n">>
ErrMessageTooLarge == "message too large"
ErrReadMessageChunk == "failed to read message chunk"

\* common.ProtocolError and common.NetworkErrorWithCause
ProtocolError(message) == [type |-> "Protocol", msg |-> message]
NetworkError(message) == [type |-> "Network", msg |-> message]

\* matchDelimiter: buffer starts with delimiter.
matchDelimiter(buffer, delimiter) ==
  /\ Len(buffer) >= Len(delimiter)
  /\ \A i \in 1..Len(delimiter) : buffer[i] = delimiter[i]

\* findDelimiter: the first index (from 0) at which delimiter occurs in
\* buffer, or -1.
findDelimiter(buffer, delimiter) ==
  LET hits == {i \in 0..(Len(buffer) - Len(delimiter)) :
                 matchDelimiter(SubSeq(buffer, i + 1, Len(buffer)), delimiter)}
  IN  IF Len(delimiter) = 0 \/ hits = {} THEN -1 ELSE MinOf(hits)

\* The messages the peer sends; none contains a delimiter.
MessageBodies == {<<"a">>, <<"b", "c">>}
DelimiterInputs == {DefaultMessageDelimiter, <<"|", "|">>}

MsInit ==
  /\ msDelim \in DelimiterInputs
  /\ msToSend \in UNION {[1..n -> MessageBodies] : n \in 1..MaxMsgs}
  /\ msSent = 0
  /\ msWPc = "idle"
  /\ msWire = <<>>
  /\ msPeerClosed = FALSE
  /\ msRPc = "idle"
  /\ msBuf = <<>>
  /\ msGot = <<>>
  /\ msLast = [msg |-> <<>>, err |-> NoError]
  /\ msFailed = FALSE
  /\ MzIdle
  /\ ParserIdle /\ PtIdle /\ RdIdle /\ RsIdle
  /\ ConnIdle /\ LsnIdle /\ SrvIdle

MsUnchanged ==
  UNCHANGED <<connVars, lsnVars, srvVars, parserVars, ptVars, rdVars,
              mzDelimAt, mzDelimLen, mzLen, mzShort, mzPc, mzRet, rsVars>>

\* WriteMessageWithTimeout on the peer, first Write: the data.
MsWriteData ==
  /\ msWPc = "idle" /\ ~msPeerClosed
  /\ msSent < Len(msToSend)
  /\ msWire' = msWire \o msToSend[msSent + 1]
  /\ msSent' = msSent + 1
  /\ msWPc' = "delim"
  /\ UNCHANGED <<msDelim, msToSend, msPeerClosed, msRPc, msBuf, msGot, msLast>>
  /\ UNCHANGED msFailed
  /\ MsUnchanged

\* WriteMessageWithTimeout on the peer, second Write: the delimiter.
MsWriteDelimiter ==
  /\ msWPc = "delim"
  /\ msWire' = msWire \o msDelim
  /\ msWPc' = "idle"
  /\ UNCHANGED <<msDelim, msToSend, msSent, msPeerClosed, msRPc, msBuf, msGot, msLast>>
  /\ UNCHANGED msFailed
  /\ MsUnchanged

\* The peer closes the connection after its last message.
MsPeerClose ==
  /\ msWPc = "idle" /\ ~msPeerClosed
  /\ msSent = Len(msToSend)
  /\ msPeerClosed' = TRUE
  /\ UNCHANGED <<msDelim, msToSend, msSent, msWPc, msWire, msRPc, msBuf, msGot, msLast>>
  /\ UNCHANGED msFailed
  /\ MsUnchanged

\* ReadMessageWithTimeout up to its loop: the deadline is set and the
\* buffer is new.
MsReadCall ==
  /\ msRPc = "idle"
  /\ msRPc' = "loop"
  /\ msBuf' = <<>>
  /\ UNCHANGED <<msDelim, msToSend, msSent, msWPc, msWire, msPeerClosed, msGot, msLast>>
  /\ UNCHANGED msFailed
  /\ MsUnchanged

\* One turn of the loop in which c.Read returns bytes: they are appended,
\* then the delimiter is looked for, then the size is checked.
MsReadChunk ==
  /\ msRPc = "loop"
  /\ msWire # <<>>
  /\ \E n \in 1..MinOf({Len(msWire), messageReadChunkSize}) :
       LET buffer == msBuf \o SubSeq(msWire, 1, n)
           delimiterIndex == findDelimiter(buffer, msDelim)
       IN  /\ msWire' = SubSeq(msWire, n + 1, Len(msWire))
           /\ IF delimiterIndex # -1
              THEN /\ msLast' = [msg |-> SubSeq(buffer, 1, delimiterIndex), err |-> NoError]
                   /\ msGot' = Append(msGot, SubSeq(buffer, 1, delimiterIndex))
                   /\ msRPc' = "idle"
                   /\ msBuf' = <<>>
              ELSE IF Len(buffer) > MaxMessageSize
              THEN /\ msLast' = [msg |-> <<>>, err |-> ProtocolError(ErrMessageTooLarge)]
                   /\ msRPc' = "idle"
                   /\ msBuf' = <<>>
                   /\ UNCHANGED msGot
              ELSE /\ msBuf' = buffer
                   /\ UNCHANGED <<msRPc, msGot, msLast>>
  /\ UNCHANGED <<msDelim, msToSend, msSent, msWPc, msPeerClosed>>
  /\ UNCHANGED msFailed
  /\ MsUnchanged

\* One turn of the loop in which c.Read fails: with io.EOF and a buffer that
\* is not empty the buffer is returned as the message; any other failure,
\* the expiry of the read deadline among them, is returned as an error.
MsReadFails ==
  /\ msRPc = "loop"
  /\ msWire = <<>>
  /\ IF msPeerClosed /\ msBuf # <<>>
     THEN /\ msLast' = [msg |-> msBuf, err |-> NoError]
          /\ msGot' = Append(msGot, msBuf)
     ELSE /\ msLast' = [msg |-> <<>>, err |-> NetworkError(ErrReadMessageChunk)]
          /\ UNCHANGED msGot
  /\ msRPc' = "idle"
  /\ msBuf' = <<>>
  /\ UNCHANGED <<msDelim, msToSend, msSent, msWPc, msWire, msPeerClosed>>
  /\ msFailed' = TRUE
  /\ MsUnchanged

MsNext ==
  \/ MsWriteData
  \/ MsWriteDelimiter
  \/ MsPeerClose
  \/ MsReadCall
  \/ MsReadChunk
  \/ MsReadFails

SpecMessage == MsInit /\ [][MsNext]_vars

\* ---- one ReadMessage on a stream of about MaxMessageSize bytes ----
\* The buffer is kept by its length: the stream holds mzDelimAt bytes that
\* are no part of a delimiter, then the delimiter, then more bytes.
MzInit ==
  /\ mzDelimAt \in {MaxMessageSize - 1, MaxMessageSize, MaxMessageSize + 1,
                    MaxMessageSize + messageReadChunkSize - 1, -1}
  /\ mzDelimLen \in {Len(d) : d \in DelimiterInputs}
  /\ mzLen = 0
  /\ mzShort = 0
  /\ mzPc = "loop"
  /\ mzRet = [len |-> 0, err |-> NoError]
  /\ MsIdle
  /\ ParserIdle /\ PtIdle /\ RdIdle /\ RsIdle
  /\ ConnIdle /\ LsnIdle /\ SrvIdle

MzUnchanged ==
  UNCHANGED <<connVars, lsnVars, srvVars, parserVars, ptVars, rdVars,
              msDelim, msToSend, msSent, msWPc, msWire, msPeerClosed, msRPc, msBuf,
              msGot, msLast, msFailed, rsVars>>

\* findDelimiter on a buffer that holds the first `len` bytes of the stream.
findDelimiterAt(len) ==
  IF mzDelimLen # 0 /\ mzDelimAt # -1 /\ len >= mzDelimAt + mzDelimLen
  THEN mzDelimAt ELSE -1

\* One turn of the loop of ReadMessageWithTimeout in which c.Read returns n
\* bytes: they are appended, then the delimiter is looked for, then the size
\* is checked.
MzReadChunk(n) ==
  /\ mzPc = "loop"
  /\ n # messageReadChunkSize => mzShort < MaxShortReads
  /\ mzShort' = IF n # messageReadChunkSize THEN mzShort + 1 ELSE mzShort
  /\ mzLen' = mzLen + n
  /\ LET delimiterIndex == findDelimiterAt(mzLen + n)
         tooLarge == mzLen + n > MaxMessageSize
     IN  IF delimiterIndex # -1
         THEN mzRet' = [len |-> delimiterIndex, err |-> NoError] /\ mzPc' = "returned"
         ELSE IF tooLarge
         THEN /\ mzRet' = [len |-> 0, err |-> ProtocolError(ErrMessageTooLarge)]
              /\ mzPc' = "returned"
         ELSE UNCHANGED <<mzRet, mzPc>>
  /\ UNCHANGED <<mzDelimAt, mzDelimLen>>
  /\ MzUnchanged

\* c.Read returns io.EOF: the peer has closed before the delimiter came.
MzReadEOF ==
  /\ mzPc = "loop"
  /\ mzRet' = IF mzLen > 0 THEN [len |-> mzLen, err |-> NoError]
               ELSE [len |-> 0, err |-> NetworkError(ErrReadMessageChunk)]
  /\ mzPc' = "returned"
  /\ UNCHANGED <<mzDelimAt, mzDelimLen, mzLen, mzShort>>
  /\ MzUnchanged

MzNext ==
  \/ \E n \in {1, messageReadChunkSize} : MzReadChunk(n)
  \/ MzReadEOF

SpecMessageSize == MzInit /\ [][MzNext]_vars

\* ---------------------------------------------------------------------------
\* HTTP responses: the constructors and setters of httpResponse
\* (src/pkg/http/response.go) and ValidateResponse
\* (src/internal/http/request.go). A response is a record of its four
\* fields; headers map a name to the list of its values; the body is the
\* stream of the bytes that are left to read from it, or NilBody.
\* ---------------------------------------------------------------------------

StatusContinue == 100
StatusOK == 200
StatusNoContent == 204
StatusNotModified == 304

HeaderContentType ==
  <<"C", "o", "n", "t", "e", "n", "t", "-", "T", "y", "p", "e">>
MimeTypeTextPlain == <<"t", "e", "x", "t", "/", "p", "l", "a", "i", "n">>

ErrInvalidStatusCode == "invalid status code"
ErrInvalidContentLength == "invalid content length"

\* make(Header)
EmptyHeader == [name \in {} |-> <<>>]

\* strings.NewReader(text)
NewReader(text) == [nil |-> FALSE, bytes |-> text]

DigitChar(d) ==
  CASE d = 0 -> "0" [] d = 1 -> "1" [] d = 2 -> "2" [] d = 3 -> "3"
    [] d = 4 -> "4" [] d = 5 -> "5" [] d = 6 -> "6" [] d = 7 -> "7"
    [] d = 8 -> "8" [] d = 9 -> "9"

\* strconv.Itoa / strconv.FormatInt(n, 10)
RECURSIVE Itoa(_)
Itoa(n) ==
  IF n < 0 THEN <<"-">> \o Itoa(0 - n)
  ELSE IF n < 10 THEN <<DigitChar(n)>>
  ELSE Itoa(n \div 10) \o <<DigitChar(n % 10)>>

\* httpResponse.SetHeader: r.headers[name] = []string{value}
SetHeader(r, name, value) ==
  [r EXCEPT !.headers =
     [n \in DOMAIN r.headers \cup {name} |->
        IF n = name THEN <<value>> ELSE r.headers[n]]]

NewResponse(statusCode, version) ==
  [statusCode |-> statusCode, version |-> version, headers |-> EmptyHeader,
   body |-> NilBody]

NewResponseWithBody(statusCode, version, body) ==
  [statusCode |-> statusCode, version |-> version, headers |-> EmptyHeader,
   body |-> body]

\* NewTextResponse: the body reads text; Content-Type and Content-Length are
\* set whatever the status code is.
NewTextResponse(statusCode, version, text) ==
  LET resp == [statusCode |-> statusCode, version |-> version,
               headers |-> EmptyHeader, body |-> NewReader(text)]
  IN  SetHeader(SetHeader(resp, HeaderContentType, MimeTypeTextPlain),
                HeaderContentLength, Itoa(Len(text)))

SetStatusCode(r, statusCode) == [r EXCEPT !.statusCode = statusCode]

SetVersion(r, version) == [r EXCEPT !.version = version]

\* httpResponse.SetBody: the body alone changes.
SetBody(r, body) == [r EXCEPT !.body = body]

SetContentLength(r, length) == SetHeader(r, HeaderContentLength, Itoa(length))

\* httpResponse.ContentLength: the first value under "Content-Length"; 0 when
\* there is none or when it is no integer.
ResponseContentLength(r) ==
  IF HeaderContentLength \notin DOMAIN r.headers THEN 0
  ELSE IF Len(r.headers[HeaderContentLength]) = 0 THEN 0
  ELSE LET length == ParseInt(r.headers[HeaderContentLength][1])
       IN  IF ~length.ok THEN 0 ELSE length.val

\* ValidateResponse: the status code, the version, the header names and the
\* sign of the content length, in this order.
ValidateResponse(resp) ==
  IF resp.statusCode < 100 \/ resp.statusCode >= 600
  THEN HTTPError(ErrInvalidStatusCode)
  ELSE IF ~isValidVersion(resp.version) THEN HTTPError(ErrInvalidVersion)
  ELSE IF \E name \in DOMAIN resp.headers : ~isValidHeaderName(name)
  THEN HTTPError(ErrInvalidHeader)
  ELSE IF ResponseContentLength(resp) < 0
  THEN HTTPError(ErrInvalidContentLength)
  ELSE NoError

StatusCodeInputs ==
  {99, StatusContinue, StatusOK, StatusNoContent, StatusNotModified, 600}

ResponseVersions == {Version10, Version11, <<"H">>}

BodyInputs == {NilBody} \cup {NewReader(text) : text \in Bodies}

HeaderNameInputs == {HeaderContentLength, <<"X", " ">>}

HeaderValueInputs == {<<"0">>, <<"2">>, <<"x">>}

RsInit ==
  /\ rsResp = <<>>
  /\ rsValid = <<>>
  /\ ParserIdle /\ PtIdle /\ RdIdle /\ MsgIdle
  /\ ConnIdle /\ LsnIdle /\ SrvIdle

RsUnchanged ==
  UNCHANGED <<connVars, lsnVars, srvVars, parserVars, ptVars, rdVars, msgVars>>

\* A constructor has returned r (the one response of a behaviour), or a setter
\* has left the response as r: no ValidateResponse has seen this value yet.
RsBecomes(r) ==
  /\ rsResp' = r
  /\ rsValid' = <<>>
  /\ RsUnchanged

RsNewResponse ==
  /\ rsResp = <<>>
  /\ \E statusCode \in StatusCodeInputs, version \in ResponseVersions :
         RsBecomes(NewResponse(statusCode, version))

RsNewResponseWithBody ==
  /\ rsResp = <<>>
  /\ \E statusCode \in StatusCodeInputs, version \in ResponseVersions,
          body \in BodyInputs :
         RsBecomes(NewResponseWithBody(statusCode, version, body))

RsNewTextResponse ==
  /\ rsResp = <<>>
  /\ \E statusCode \in StatusCodeInputs, version \in ResponseVersions,
          text \in Bodies :
         RsBecomes(NewTextResponse(statusCode, version, text))

RsSetStatusCode ==
  /\ rsResp # <<>>
  /\ \E statusCode \in StatusCodeInputs :
       RsBecomes(SetStatusCode(rsResp, statusCode))

RsSetVersion ==
  /\ rsResp # <<>>
  /\ \E version \in ResponseVersions : RsBecomes(SetVersion(rsResp, version))

RsSetHeader ==
  /\ rsResp # <<>>
  /\ \E name \in HeaderNameInputs, value \in HeaderValueInputs :
       RsBecomes(SetHeader(rsResp, name, value))

RsSetBody ==
  /\ rsResp # <<>>
  /\ \E body \in BodyInputs : RsBecomes(SetBody(rsResp, body))

RsSetContentLength ==
  /\ rsResp # <<>>
  /\ \E length \in -1..MaxBody : RsBecomes(SetContentLength(rsResp, length))

RsValidateResponse ==
  /\ rsResp # <<>>
  /\ rsValid' = ValidateResponse(rsResp)
  /\ rsResp' = rsResp
  /\ RsUnchanged

RsNext ==
  \/ RsNewResponse
  \/ RsNewResponseWithBody
  \/ RsNewTextResponse
  \/ RsSetStatusCode
  \/ RsSetVersion
  \/ RsSetHeader
  \/ RsSetBody
  \/ RsSetContentLength
  \/ RsValidateResponse

SpecResponse == RsInit /\ [][RsNext]_vars

\* ---- the rejection classes, read off the input alone ----
IsPrefix(p, s) == Len(p) <= Len(s) /\ SubSeq(s, 1, Len(p)) = p
AllIn(s, chars) == \A i \in 1..Len(s) : s[i] \in chars

\* The header lines of a request that give Content-Length a non-negative
\* decimal value, and the value the first of them gives.
LengthLines(in) ==
  {i \in 2..Len(in.lines) :
     /\ IsPrefix(HeaderContentLength \o <<":">>, in.lines[i])
     /\ LET v == TrimSpace(SubSeq(in.lines[i], Len(HeaderContentLength) + 2,
                                  Len(in.lines[i])))
        IN  v # <<>> /\ AllIn(v, Digits)}
DeclaresLength(in) == in.term /\ LengthLines(in) # {}
DeclaredLength(in) ==
  LET line == in.lines[MinOf(LengthLines(in))]
  IN  DecimalValue(TrimSpace(SubSeq(line, Len(HeaderContentLength) + 2, Len(line))))

RequestRejectionClass(in) ==
  /\ in.term /\ in.lines # <<>>
  /\ LET parts == SplitN3(in.lines[1])
     IN  \/ Len(in.lines[1]) > MaxRequestLineLength                 \* oversized line
         \/ Len(parts) = 3 /\ ~isValidMethod(parts[1])              \* bad method
         \/ Len(parts) = 3 /\ ~isValidPath(parts[2])                \* bad path
         \/ Len(parts) = 3 /\ ~isValidVersion(parts[3])             \* bad version
         \/ \E i \in 2..Len(in.lines) :
              \/ IndexesOf(in.lines[i], {":"}) = {}                 \* no colon
              \/ Len(in.lines[i]) > MaxHeaderLineLength             \* oversized line
         \/ Len(in.lines) - 1 > MaxHeaderLines                      \* oversized total
         \/ DeclaresLength(in) /\ DeclaredLength(in) # Len(in.body) \* mismatch

ChunkDigits(line) ==
  LET semis == IndexesOf(line, {";"})
  IN  IF semis = {} THEN line ELSE SubSeq(line, 1, MinOf(semis) - 1)
MalformedChunkSize(line) == ~AllIn(ChunkDigits(line), HexDigits)
\* The size, a hexadecimal numeral, is more than 10000 (hex), that is 64 KiB.
OversizedChunk(line) ==
  LET d == ChunkDigits(line)
      nz == {i \in 1..Len(d) : d[i] # "0"}
      sig == IF nz = {} THEN <<>> ELSE SubSeq(d, MinOf(nz), Len(d))
  IN  /\ AllIn(d, HexDigits)
      /\ \/ Len(sig) > 5
         \/ Len(sig) = 5 /\ (HexVal(sig[1]) > 1 \/ \E i \in 2..5 : sig[i] # "0")

\* C19: for every rejection class (bad method, bad path, bad version, header
\* line without a colon, oversized line, oversized total, Content-Length
\* mismatch, malformed chunk size, oversized chunk) the parser returns a
\* Protocol or InvalidInput error and a nil message, never a partly built one.
C19_RejectionClassesGetTypedError ==
  hpc = "done" =>
    /\ (hin.kind = "request" /\ RequestRejectionClass(hin))
         => (hout.err.type \in {"Protocol", "InvalidInput"} /\ hout.req = NilRequest)
    /\ (hin.kind = "chunk"
          /\ (MalformedChunkSize(hin.line) \/ OversizedChunk(hin.line)))
         => (hout.outcome = "error" /\ hout.err.type \in {"Protocol", "InvalidInput"})

\* C20: when a Content-Length header is present, ParseRequest succeeds only
\* if the number of bytes after the header terminator equals Content-Length
\* exactly, a mismatch on an otherwise well-formed request fails with
\* ErrUnexpectedEOF, and on success the body stream yields exactly those bytes.
C20_ContentLengthFramesBody ==
  (hpc = "done" /\ hin.kind = "request" /\ DeclaresLength(hin)) =>
    /\ hout.err = NoError =>
         /\ Len(hin.body) = DeclaredLength(hin)
         /\ BodyBytes(hout.req) = hin.body
    /\ (/\ Len(hin.body) # DeclaredLength(hin)
        /\ hin.lines # <<>>
        /\ parseRequestLine(hin.lines[1]).err = NoError
        /\ parseHeaders(Tail(hin.lines)).err = NoError)
         => hout.err = HTTPError(ErrUnexpectedEOF)

MaxRequestBodySize == 10485760     \* 10 << 20

\* The values the header lines of a request give under the name Content-Length.
ContentLengthValues(in) ==
  {TrimSpace(SubSeq(in.lines[i], Len(HeaderContentLength) + 2, Len(in.lines[i]))) :
     i \in {j \in 2..Len(in.lines) :
              IsPrefix(HeaderContentLength \o <<":">>, in.lines[j])}}
IsDecimal(v) == v # <<>> /\ AllIn(v, Digits)
WithinBodyCap(v) == IsDecimal(v) /\ DecimalValue(v) <= MaxRequestBodySize

\* C21: ParseRequest rejects with a protocol error every request whose
\* Content-Length value is not a non-negative decimal integer or exceeds the
\* 10 MiB body cap; a request it accepts has, when it has a Content-Length, a
\* non-negative decimal integer within the cap.
C21_ContentLengthValidated ==
  (hpc = "done" /\ hin.kind = "request" /\ hin.term /\ hin.lines # <<>>) =>
    /\ (\E v \in ContentLengthValues(hin) : ~WithinBodyCap(v))
         => (hout.err.type = "Protocol" /\ hout.req = NilRequest)
    /\ hout.err = NoError
         => \A v \in ContentLengthValues(hin) : WithinBodyCap(v)

\* C22: when a request carries Transfer-Encoding: chunked the parser decodes
\* the body as a sequence of chunks: the body of the parsed request is the
\* concatenation of the chunk payloads ("Hello World" for the chunks "Hello"
\* and " World").
C22_ChunkedBodyDecoded ==
  (hpc = "done" /\ hin.kind = "request" /\ "payloads" \in DOMAIN hin) =>
    /\ hout.err = NoError
    /\ BodyBytes(hout.req) = Concat(hin.payloads)

\* The size field of a chunk-size line is no non-empty string of hexadecimal
\* digits.
BadSizeField(line) == ChunkDigits(line) = <<>> \/ MalformedChunkSize(line)

\* C23: the chunked decoder returns ErrChunkedEncodingInvalid for every chunk
\* whose declared size exceeds 64 KiB and for every size field that is not a
\* non-empty string of hexadecimal digits (an extension may follow); it never
\* delivers payload bytes of such a chunk.
C23_BadChunkRejected ==
  (hpc = "done" /\ hin.kind = "chunk"
     /\ (OversizedChunk(hin.line) \/ BadSizeField(hin.line)))
    => (hout.outcome = "error" /\ hout.err = HTTPError(ErrChunkedEncodingInvalid))

\* C24: the codec never panics on malformed input: ParseRequest and
\* ChunkedReader.Read return a value or a typed error, and the chunk size
\* computed from a hexadecimal field of any length never wraps around the
\* machine integer into a negative or a small count of remaining bytes.
C24_NoPanicNoWrap ==
  (hpc = "done" /\ hin.kind = "chunk") =>
    /\ hout.outcome # "panic"
    /\ OversizedChunk(hin.line)
         => (~IsNegative(parseChunkSize(hin.line).size)
               /\ GreaterThan(parseChunkSize(hin.line).size, MaxChunkSize))

\* strings.ToLower of a header name.
LowerOf(c) ==
  IF c \in UpperLetters
  THEN LET up == <<"A", "B", "C", "D", "E", "F", "G", "H", "I", "J", "K", "L", "M",
                   "N", "O", "P", "Q", "R", "S", "T", "U", "V", "W", "X", "Y", "Z">>
           lo == <<"a", "b", "c", "d", "e", "f", "g", "h", "i", "j", "k", "l", "m",
                   "n", "o", "p", "q", "r", "s", "t", "u", "v", "w", "x", "y", "z">>
       IN  lo[CHOOSE i \in 1..26 : up[i] = c]
  ELSE c
ToLower(s) == [i \in 1..Len(s) |-> LowerOf(s[i])]

\* The values a request's header lines give under a name, whatever its casing,
\* in the order of the lines.
ValuesAnyCase(req, name) ==
  LET same == {n \in DOMAIN req.headers : ToLower(n) = ToLower(name)}
  IN  {req.headers[n] : n \in same}

\* C25: header lookup is case-insensitive and storage is case-preserving:
\* GetHeader, GetHeaders, HasHeader and the Content-Length lookup of the body
\* framing find a header whatever the casing of the stored name.
C25_LookupIgnoresCase ==
  /\ hlook.asked =>
       /\ hlook.has <=> (ValuesAnyCase(hout.req, hlook.name) # {})
       /\ hlook.has => (hlook.all \in ValuesAnyCase(hout.req, hlook.name)
                          /\ hlook.get = hlook.all[1])
  /\ (hpc = "done" /\ hin.kind = "request" /\ hout.err = NoError)
       => \A vs \in ValuesAnyCase(hout.req, HeaderContentLength) :
            (IsDecimal(vs[1]) /\ DecimalValue(vs[1]) > 0)
              => BodyBytes(hout.req) = hin.body

\* The request target of a request as it was sent.
TargetOf(in) == SplitN3(in.lines[1])[2]

\* C26: for a request returned by the parser whose target has a query
\* string, QueryParams returns for every key of the query the first value
\* given for it ({i: 1} for /u?i=1&i=2), and the path keeps the query part.
C26_QueryParamsFirstValue ==
  (hquery.asked /\ IndexesOf(TargetOf(hin), {"?"}) # {}) =>
    /\ hout.req.path = TargetOf(hin)
    /\ hquery.params = FirstValues(SubSeq(TargetOf(hin),
                                          MinOf(IndexesOf(TargetOf(hin), {"?"})) + 1,
                                          Len(TargetOf(hin))))

\* C27 as stated: parsing "GET /invalid request line\r\n\r\n" fails with a
\* Protocol error whose message contains "invalid HTTP request line", and no
\* request is returned.
C27_MalformedSampleRequestLineError ==
  (hpc = "done" /\ hin = MalformedSample(TRUE)) =>
    /\ hout.err = HTTPError(ErrInvalidRequestLine)
    /\ hout.req = NilRequest

\* C27, amended: parsing "GET /invalid request line\r\n\r\n" fails with a
\* Protocol error whose message is "invalid HTTP version" (the line splits at
\* its first two spaces and "request line" is no version), and no request is
\* returned.
C27_MalformedSampleVersionError ==
  (hpc = "done" /\ hin = MalformedSample(TRUE)) =>
    /\ hout.err = HTTPError(ErrInvalidVersion)
    /\ hout.req = NilRequest

\* The sample has been parsed.
C27_Witness ==
  hpc = "done" /\ hin = MalformedSample(TRUE) /\ hout.err.type = "Protocol"

\* The names of the AddHeader calls in the order of their first call.
InsertionOrder(adds) ==
  LET firsts == {i \in 1..Len(adds) : \A j \in 1..(i - 1) : adds[j][1] # adds[i][1]}
      nth(k) == CHOOSE i \in firsts : Cardinality({j \in firsts : j <= i}) = k
  IN  [k \in 1..Cardinality(firsts) |-> adds[nth(k)][1]]

\* C28: the serializer is bit-exact and deterministic: WriteRequest emits
\* the start line, each header as NAME ": " VALUE CRLF in the order the
\* headers were inserted, an empty line and the body verbatim, so the same
\* message always gives the same bytes.
C28_SerializedInInsertionOrder ==
  (hpc \in {"written", "done"} /\ hin.kind = "message") =>
    hout.bytes = WriteRequest(BuildRequest(hin), InsertionOrder(hin.adds))

\* Validate accepts the request, and its body is framed: Content-Length gives
\* the length of the body, or there is neither.
ValidMessage(msg) ==
  LET req == BuildRequest(msg)
  IN  /\ isValidMethod(req.method) /\ isValidPath(req.path)
      /\ isValidVersion(req.version)
      /\ \A n \in DOMAIN req.headers : isValidHeaderName(n)
      /\ IF HasHeader(req, HeaderContentLength)
         THEN /\ \A k \in 1..Len(req.headers[HeaderContentLength]) :
                   IsDecimal(req.headers[HeaderContentLength][k])
              /\ ContentLength(req.headers) = Len(msg.body)
         ELSE msg.body = <<>>

\* C29: round trip: for every valid request, serializing it and parsing the
\* bytes back yields an equal value: the same start-line fields, the same
\* header values per name, the same body bytes.
C29_RoundTrip ==
  (hpc = "done" /\ hin.kind = "message" /\ ValidMessage(hin)) =>
    /\ hback.err = NoError
    /\ hback.req.method = hin.method
    /\ hback.req.path = hin.path
    /\ hback.req.version = hin.version
    /\ hback.req.headers = BuildRequest(hin).headers
    /\ BodyBytes(hback.req) = hin.body

C38_NoCallPanics ==
  \A k \in Controllers : ctlRes[k] # "panic"

\* C40: while the server is running its handler is not nil, and no worker
\* has found a nil handler when it came to call it.
C40_HandlerSetWhileRunning ==
  /\ running => handler # "nil"
  /\ \A c \in Conns : ~(wPanic[c] /\ handlerCalls[c] = 0)

\* ---- the listener's accept loop and its shutdown ----
\* C33: the timeout of the accept deadline is swallowed by acceptLoop: it is
\* never put on l.acceptChan and never returned by an Accept call.
C33_PollTimeoutSwallowed ==
  /\ \A i \in 1..Len(acceptChan) : acceptChan[i].cause # "timeout"
  /\ \A c \in DOMAIN apc : ares[c].cause # "timeout"

\* C39: once Close has returned and acceptLoop has ended, no connection that
\* acceptLoop accepted is left undelivered on l.acceptChan: each one has been
\* returned by an Accept call or has been closed.
C39_NoConnLeftInAcceptChan ==
  (closeReturned /\ loopPc = "done" /\ \A k \in DOMAIN cpc : cpc[k] = "idle")
    => \A i \in 1..Len(acceptChan) :
         acceptChan[i].conn # 0 => acceptChan[i].conn \in loopClosed

\* ---- the body readers ----
\* The chunked body the reader was made from is whole.
WholeBody == rdKind = "chunked" /\ rdSrc.cut = Len(EncodeChunks(rdSrc.payloads))

C35_CleanEndOnlyAfterLastChunk ==
  rdKind = "chunked" =>
    /\ rdLast.err = IoEOF => rdZero
    /\ rdFirstErr # NoError => (rdLast.err = rdFirstErr /\ rdLast.n = 0)

\* C37: the bytes returned never exceed the content length, Remaining() is
\* the content length minus the bytes returned, and a Read made when
\* Remaining() is 0 returns 0 bytes and io.EOF and leaves the stream alone.
C37_ContentLengthReaderBounded ==
  /\ [](rdKind = "length" =>
          /\ Len(rdOut) <= rdSrc.length
          /\ Remaining = rdSrc.length - Len(rdOut))
  /\ [][(rdKind = "length" /\ Remaining = 0) =>
          /\ rdLast' = [n |-> 0, err |-> IoEOF, under |-> FALSE]
          /\ rdIn' = rdIn /\ rdOut' = rdOut]_rdVars

\* A reader with a content length shorter than its stream has returned
\* content-length bytes, and a further Read has returned io.EOF while bytes
\* are left in the stream.
C37_Witness ==
  /\ rdKind = "length"
  /\ rdSrc.length = 2 /\ Len(rdOut) = 2 /\ Remaining = 0
  /\ rdIn # <<>>
  /\ rdLast = [n |-> 0, err |-> IoEOF, under |-> FALSE]

\* ---- message framing ----
\* C31: no message returned by ReadMessage is longer than MaxMessageSize,
\* and "message too large" is returned only when the buffer has grown
\* beyond it.
C31_MessageWithinCap ==
  mzPc = "returned" =>
    /\ mzRet.err = NoError => mzRet.len <= MaxMessageSize
    /\ mzRet.err = ProtocolError(ErrMessageTooLarge) => mzLen > MaxMessageSize

\* C36: the messages returned by the ReadMessage calls are the messages
\* passed to WriteMessage, in the same order: as long as no read of the
\* connection has failed, what has been returned is the beginning of what
\* is sent.
C36_FramingLossless ==
  ~msFailed => IsPrefix(msGot, msToSend)

\* The body invariant of a response: for the statuses 1xx, 204 and 304 the
\* content length is 0 (or there is no Content-Length) and the body is empty;
\* for every other status the content length is the number of bytes of the
\* body.
StatusWithoutBody(statusCode) ==
  \/ statusCode \in 100..199
  \/ statusCode \in {StatusNoContent, StatusNotModified}

BodyInvariant(r) ==
  IF StatusWithoutBody(r.statusCode)
  THEN ResponseContentLength(r) = 0 /\ BodyBytes(r) = <<>>
  ELSE ResponseContentLength(r) = Len(BodyBytes(r))

\* C32: every response that the constructors and setters can build and that
\* ValidateResponse accepts satisfies the body invariant.
C32_ValidResponseKeepsBodyInvariant ==
  (rsResp # <<>> /\ rsValid = NoError) => BodyInvariant(rsResp)

====
